---- MODULE Spec2Model ----
(***************************************************************************)
(* A model of the code-execution edge function of brain-brew               *)
(* (src/unnamed/part_007): the request handler passed to serve(), its      *)
(* denylist guard and the four per-language evaluators.                    *)
(*                                                                         *)
(* Text is modelled at the level of characters.  A JavaScript string is a  *)
(* sequence of pieces, each piece a TLA+ string: the characters of a       *)
(* submitted snippet are one-character pieces, and a literal that the      *)
(* source writes out (a placeholder line, a label) is kept as one piece.   *)
(* The empty string is the empty sequence.                                 *)
(***************************************************************************)
EXTENDS Integers, Sequences, FiniteSets, TLC

----------------------------------------------------------------------------
(* Strings                                                                 *)

\* The value JavaScript calls undefined: an absent field, a missing header.
Undefined == "undefined"

UpperChars ==
    <<"A", "B", "C", "D", "E", "F", "G", "H", "I", "J", "K", "L", "M",
      "N", "O", "P", "Q", "R", "S", "T", "U", "V", "W", "X", "Y", "Z">>

LowerChars ==
    <<"a", "b", "c", "d", "e", "f", "g", "h", "i", "j", "k", "l", "m",
      "n", "o", "p", "q", "r", "s", "t", "u", "v", "w", "x", "y", "z">>

\* Case folding of one character, as the /i flag of a RegExp compares.
Lower(c) ==
    IF \E i \in 1..Len(UpperChars) : UpperChars[i] = c
    THEN LowerChars[CHOOSE i \in 1..Len(UpperChars) : UpperChars[i] = c]
    ELSE c

\* The characters \s matches (those the model's inputs can hold).
WsChars == {" ", "\t", "\n", "\r"}

\* The line terminators, which "." does not match.
LineTerminators == {"\n", "\r"}

\* s.substring(from - 1, to) in 1-based, inclusive positions.
Slice(s, from, to) == IF from > to THEN <<>> ELSE SubSeq(s, from, to)

\* String.prototype.startsWith
StartsWith(s, pre) ==
    /\ Len(pre) <= Len(s)
    /\ \A i \in 1..Len(pre) : s[i] = pre[i]

\* String.prototype.endsWith
EndsWith(s, suf) ==
    /\ Len(suf) <= Len(s)
    /\ \A i \in 1..Len(suf) : s[Len(s) - Len(suf) + i] = suf[i]

\* String.prototype.includes
Includes(s, sub) ==
    \E j \in 0..(Len(s) - Len(sub)) : \A i \in 1..Len(sub) : s[j + i] = sub[i]

\* String.prototype.trim
Trim(s) ==
    IF \A i \in 1..Len(s) : s[i] \in WsChars THEN <<>>
    ELSE Slice(s,
               CHOOSE i \in 1..Len(s) :
                   s[i] \notin WsChars /\ \A k \in 1..(i - 1) : s[k] \in WsChars,
               CHOOSE j \in 1..Len(s) :
                   s[j] \notin WsChars /\ \A k \in (j + 1)..Len(s) : s[k] \in WsChars)

\* code.split('\n'): the lines between the newline characters, in order.
SplitLines(s) ==
    LET nl    == {i \in 1..Len(s) : s[i] = "\n"}
        cuts  == nl \cup {0, Len(s) + 1}
        next(i) == CHOOSE k \in cuts : k > i /\ \A m \in cuts : m > i => k <= m
        RECURSIVE from(_)
        from(i) == IF i = Len(s) + 1 THEN <<>>
                   ELSE <<Slice(s, i + 1, next(i) - 1)>> \o from(next(i))
    IN  from(0)

\* Array.prototype.join(sep) of an array of strings.
RECURSIVE Join(_, _)
Join(lines, sep) ==
    IF Len(lines) = 0 THEN <<>>
    ELSE IF Len(lines) = 1 THEN lines[1]
    ELSE lines[1] \o sep \o Join(Tail(lines), sep)

\* s.replace(/c/g, ''): s without the characters of cs.
Without(s, cs) == SelectSeq(s, LAMBDA c : c \notin cs)

----------------------------------------------------------------------------
(* Regular expressions: the fragment of RegExp that the denylist uses.     *)
(* A pattern is a sequence of elements: a literal character, one character *)
(* of a class, or zero or more characters of a class.                      *)

Lit(s) == [i \in 1..Len(s) |-> [k |-> "ch", c |-> s[i]]]
Ws0    == <<[k |-> "star", c |-> "ws"]>>
Ws1    == <<[k |-> "cls", c |-> "ws"], [k |-> "star", c |-> "ws"]>>
Any0   == <<[k |-> "star", c |-> "dot"]>>
Quote  == <<[k |-> "cls", c |-> "quote"]>>

InClass(c, cls) ==
    CASE cls = "ws"    -> c \in WsChars
      [] cls = "quote" -> c \in {"'", "\""}
      [] cls = "dot"   -> c \notin LineTerminators

\* Whether element e accepts character c.
Accepts(e, c, icase) ==
    IF e.k = "ch"
    THEN c = e.c \/ (icase /\ Lower(c) = Lower(e.c))
    ELSE InClass(c, e.c)

\* Whether elements i.. of the pattern match a prefix of s[j..].
RECURSIVE MatchHere(_, _, _, _)
MatchHere(p, i, s, j) ==
    IF i > Len(p.els) THEN TRUE
    ELSE LET e == p.els[i]
         IN  IF e.k = "star"
             THEN \/ MatchHere(p, i + 1, s, j)
                  \/ /\ j <= Len(s)
                     /\ Accepts(e, s[j], p.icase)
                     /\ MatchHere(p, i, s, j + 1)
             ELSE /\ j <= Len(s)
                  /\ Accepts(e, s[j], p.icase)
                  /\ MatchHere(p, i + 1, s, j + 1)

\* RegExp.prototype.test: the pattern matches somewhere in s.
Test(p, s) == \E j \in 1..(Len(s) + 1) : MatchHere(p, 1, s, j)

----------------------------------------------------------------------------
(* The denylist                                                            *)

PatRequireChildProcess ==
    [icase |-> FALSE,
     els |-> Lit(<<"r", "e", "q", "u", "i", "r", "e">>)
             \o Ws0
             \o Lit(<<"(">>)
             \o Ws0
             \o Quote
             \o Lit(<<"c", "h", "i", "l", "d", "_", "p", "r", "o", "c", "e", "s", "s">>)
             \o Quote]

PatImportChildProcess ==
    [icase |-> FALSE,
     els |-> Lit(<<"i", "m", "p", "o", "r", "t">>)
             \o Ws1
             \o Any0
             \o Lit(<<"c", "h", "i", "l", "d", "_", "p", "r", "o", "c", "e", "s", "s">>)]

PatEval ==
    [icase |-> FALSE,
     els |-> Lit(<<"e", "v", "a", "l">>)
             \o Ws0
             \o Lit(<<"(">>)]

PatFunction ==
    [icase |-> FALSE,
     els |-> Lit(<<"F", "u", "n", "c", "t", "i", "o", "n">>)
             \o Ws0
             \o Lit(<<"(">>)]

PatProcess ==
    [icase |-> FALSE,
     els |-> Lit(<<"p", "r", "o", "c", "e", "s", "s", ".">>)]

PatFs ==
    [icase |-> FALSE,
     els |-> Lit(<<"f", "s", ".">>)]

PatDotExec ==
    [icase |-> FALSE,
     els |-> Lit(<<".", "e", "x", "e", "c">>)
             \o Ws0
             \o Lit(<<"(">>)]

PatSpawn ==
    [icase |-> FALSE,
     els |-> Lit(<<"s", "p", "a", "w", "n">>)
             \o Ws0
             \o Lit(<<"(">>)]

PatFork ==
    [icase |-> FALSE,
     els |-> Lit(<<"f", "o", "r", "k">>)
             \o Ws0
             \o Lit(<<"(">>)]

PatDunderImport ==
    [icase |-> FALSE,
     els |-> Lit(<<"_", "_", "i", "m", "p", "o", "r", "t", "_", "_">>)]

PatExec ==
    [icase |-> FALSE,
     els |-> Lit(<<"e", "x", "e", "c">>)
             \o Ws0
             \o Lit(<<"(">>)]

PatOpen ==
    [icase |-> FALSE,
     els |-> Lit(<<"o", "p", "e", "n">>)
             \o Ws0
             \o Lit(<<"(">>)]

PatSubprocess ==
    [icase |-> FALSE,
     els |-> Lit(<<"s", "u", "b", "p", "r", "o", "c", "e", "s", "s">>)]

PatOsSystem ==
    [icase |-> FALSE,
     els |-> Lit(<<"o", "s", ".", "s", "y", "s", "t", "e", "m">>)]

PatRmRf ==
    [icase |-> FALSE,
     els |-> Lit(<<"r", "m">>)
             \o Ws1
             \o Lit(<<"-", "r", "f">>)]

PatSemicolonRm ==
    [icase |-> FALSE,
     els |-> Lit(<<";">>)
             \o Ws0
             \o Lit(<<"r", "m">>)
             \o Ws1]

PatPipeRm ==
    [icase |-> FALSE,
     els |-> Lit(<<"|">>)
             \o Ws0
             \o Lit(<<"r", "m">>)
             \o Ws1]

PatWget ==
    [icase |-> FALSE,
     els |-> Lit(<<"w", "g", "e", "t">>)
             \o Ws1]

PatCurl ==
    [icase |-> FALSE,
     els |-> Lit(<<"c", "u", "r", "l">>)
             \o Ws1]

PatDropTable ==
    [icase |-> TRUE,
     els |-> Lit(<<"D", "R", "O", "P">>)
             \o Ws1
             \o Lit(<<"T", "A", "B", "L", "E">>)]

PatDeleteFrom ==
    [icase |-> TRUE,
     els |-> Lit(<<"D", "E", "L", "E", "T", "E">>)
             \o Ws1
             \o Lit(<<"F", "R", "O", "M">>)]

dangerousPatterns ==
    <<PatRequireChildProcess,
      PatImportChildProcess,
      PatEval,
      PatFunction,
      PatProcess,
      PatFs,
      PatDotExec,
      PatSpawn,
      PatFork,
      PatDunderImport,
      PatExec,
      PatOpen,
      PatSubprocess,
      PatOsSystem,
      PatRmRf,
      PatSemicolonRm,
      PatPipeRm,
      PatWget,
      PatCurl,
      PatDropTable,
      PatDeleteFrom>>

\* for (const pattern of dangerousPatterns) if (pattern.test(code)) ...
DangerousMatch(code) ==
    \E n \in 1..Len(dangerousPatterns) : Test(dangerousPatterns[n], code)

\* The language tags the handler accepts.
SupportedLanguages == {"javascript", "python", "bash", "sql"}

\* The longest code the handler accepts, in characters.
MaxCodeLength == 10000

\* The delay of the timer that executeJavaScript arms, in milliseconds.
TimeoutMs == 5000

----------------------------------------------------------------------------
(* Results                                                                 *)

\* interface ExecutionResult; error is Undefined when the field is absent.
ExecutionResult(output, error, exitCode, executionTime) ==
    [output |-> output, error |-> error, exitCode |-> exitCode,
     executionTime |-> executionTime]

\* The result of an evaluator that ran to its return statement.
SuccessResult(lines, placeholder) ==
    LET joined == Join(lines, <<"\n">>)
    IN  ExecutionResult(IF joined = <<>> THEN placeholder ELSE joined,
                        Undefined, 0, 0)

\* The result an evaluator's catch block returns.
FailureResult(message) == ExecutionResult(<<>>, message, 1, 0)

----------------------------------------------------------------------------
(* The simulated evaluators: executePython, executeBash, executeSQL        *)

StrPrintOpen ==
    <<"p", "r", "i", "n", "t", "(">>

StrEchoSp ==
    <<"e", "c", "h", "o", " ">>

StrFibonacci ==
    <<"f", "i", "b", "o", "n", "a", "c", "c", "i">>

StrJsonDumps ==
    <<"j", "s", "o", "n", ".", "d", "u", "m", "p", "s">>

StrForLoop ==
    <<"f", "o", "r", " ", "i", " ", "i", "n", " ", "{", "1", ".", ".", "5",
      "}">>

StrDate ==
    <<"$", "(", "d", "a", "t", "e", ")">>

StrPwd ==
    <<"$", "(", "p", "w", "d", ")">>

StrCreateTemp ==
    <<"C", "R", "E", "A", "T", "E", " ", "T", "E", "M", "P", " ", "T", "A",
      "B", "L", "E">>

StrInsertInto ==
    <<"I", "N", "S", "E", "R", "T", " ", "I", "N", "T", "O">>

StrSelectKw ==
    <<"S", "E", "L", "E", "C", "T">>

StrFromUsers ==
    <<"F", "R", "O", "M", " ", "u", "s", "e", "r", "s">>

StrCountStar ==
    <<"C", "O", "U", "N", "T", "(", "*", ")">>

\* function fibonacci(n)
RECURSIVE fibonacci(_)
fibonacci(n) == IF n <= 1 THEN n ELSE fibonacci(n - 1) + fibonacci(n - 2)

\* trimmed.match(/print\((.+)\)/)[1], or Undefined when there is no match:
\* the leftmost "print(" that a ")" follows after at least one character,
\* and greedily the last such ")".
PrintMatch(t) ==
    LET closes(k) == {r \in (k + 7)..Len(t) :
                        /\ t[r] = ")"
                        /\ \A m \in (k + 6)..(r - 1) : InClass(t[m], "dot")}
        opens == {k \in 1..Len(t) :
                    /\ StartsWith(Slice(t, k, Len(t)), StrPrintOpen)
                    /\ closes(k) # {}}
    IN  IF opens = {} THEN <<Undefined>>
        ELSE LET k == CHOOSE k \in opens : \A m \in opens : k <= m
                 r == CHOOSE r \in closes(k) : \A m \in closes(k) : r >= m
             IN  Slice(t, k + 6, r - 1)

\* The quotes executePython strips from a print argument.
Unquote(content) ==
    IF StartsWith(content, <<"\"">>) /\ EndsWith(content, <<"\"">>)
    THEN Slice(content, 2, Len(content) - 1)
    ELSE IF StartsWith(content, <<"'">>) /\ EndsWith(content, <<"'">>)
    THEN Slice(content, 2, Len(content) - 1)
    ELSE content

\* The lines one source line adds to executePython's output.
PythonLine(line) ==
    LET trimmed == Trim(line)
    IN  IF StartsWith(trimmed, StrPrintOpen)
           /\ PrintMatch(trimmed) # <<Undefined>>
        THEN <<Unquote(PrintMatch(trimmed))>>
        ELSE <<>>

\* The arrays pushed one after the other, as one array.
RECURSIVE Flatten(_)
Flatten(arrays) ==
    IF arrays = <<>> THEN <<>>
    ELSE Head(arrays) \o Flatten(Tail(arrays))

executePython(code) ==
    LET lines == SplitLines(code)
        printed == Flatten([n \in 1..Len(lines) |-> PythonLine(lines[n])])
        fib == IF Includes(code, StrFibonacci)
               THEN <<<<"Fibonacci sequence:">>>>
                    \o [n \in 1..10 |->
                          <<"F(", ToString(n - 1), ") = ",
                            ToString(fibonacci(n - 1))>>]
               ELSE <<>>
        dumps == IF Includes(code, StrJsonDumps)
                 THEN << <<"{\n  \"message\": \"Python is awesome!\",\n  \"numbers\": [1, 2, 3, 4, 5]\n}">> >>
                 ELSE <<>>
    IN  SuccessResult(printed \o fib \o dumps,
                      <<"Python code executed (simulated)">>)

\* What new Date().toISOString() returns: a wall-clock reading.
IsoDate == "<toISOString()>"

\* The lines one source line adds to executeBash's output.
BashLine(line) ==
    LET trimmed == Trim(line)
    IN  IF StartsWith(trimmed, StrEchoSp)
        THEN <<Without(Slice(trimmed, 6, Len(trimmed)), {"\"", "'"})>>
        ELSE IF Includes(trimmed, StrForLoop)
        THEN [i \in 1..5 |-> <<"Count: ", ToString(i)>>]
        ELSE IF Includes(trimmed, StrDate)
        THEN << <<"Current date: ", IsoDate>> >>
        ELSE IF Includes(trimmed, StrPwd)
        THEN << <<"Working directory: /tmp/sandbox">> >>
        ELSE <<>>

executeBash(code) ==
    LET lines == SplitLines(code)
    IN  SuccessResult(Flatten([n \in 1..Len(lines) |-> BashLine(lines[n])]),
                      <<"Bash script executed (simulated)">>)

executeSQL(code) ==
    LET created  == IF Includes(code, StrCreateTemp)
                    THEN << <<"CREATE TABLE">> >> ELSE <<>>
        inserted == IF Includes(code, StrInsertInto)
                    THEN << <<"INSERT 0 3">> >> ELSE <<>>
        selected == IF Includes(code, StrSelectKw) /\ Includes(code, StrFromUsers)
                    THEN << <<" id |     name      |        email        |         created_at">>,
                            <<"----+---------------+---------------------+----------------------------">>,
                            <<"  1 | Alice Johnson | alice@example.com   | 2024-01-15 10:30:00.000000">>,
                            <<"  2 | Bob Smith     | bob@example.com     | 2024-01-15 10:30:00.000000">>,
                            <<"  3 | Carol Davis   | carol@example.com   | 2024-01-15 10:30:00.000000">>,
                            <<"(3 rows)">> >>
                    ELSE <<>>
        counted  == IF Includes(code, StrCountStar)
                    THEN << <<" total_users |      latest_signup">>,
                            <<"-------------+----------------------------">>,
                            <<"           3 | 2024-01-15 10:30:00.000000">>,
                            <<"(1 row)">> >>
                    ELSE <<>>
    IN  SuccessResult(created \o inserted \o selected \o counted,
                      <<"SQL executed (simulated)">>)

----------------------------------------------------------------------------
(* The lines of the submitted snippets                                     *)

FragLogHi ==
    <<"c", "o", "n", "s", "o", "l", "e", ".", "l", "o", "g", "(", "'", "h",
      "i", "'", ")">>

FragLogPair ==
    <<"c", "o", "n", "s", "o", "l", "e", ".", "l", "o", "g", "(", "'", "a",
      "'", ",", " ", "{", "b", ":", " ", "1", "}", ")">>

FragErrX ==
    <<"c", "o", "n", "s", "o", "l", "e", ".", "e", "r", "r", "o", "r", "(",
      "'", "x", "'", ")">>

FragThrowErr ==
    <<"t", "h", "r", "o", "w", " ", "n", "e", "w", " ", "E", "r", "r", "o",
      "r", "(", "'", "b", "o", "o", "m", "'", ")">>

FragThrowStr ==
    <<"t", "h", "r", "o", "w", " ", "'", "o", "o", "p", "s", "'">>

FragLoop ==
    <<"w", "h", "i", "l", "e", "(", "t", "r", "u", "e", ")", "{", "}">>

FragSpin ==
    <<"f", "o", "r", "(", "v", "a", "r", " ", "t", "=", "D", "a", "t", "e",
      ".", "n", "o", "w", "(", ")", ";", "D", "a", "t", "e", ".", "n", "o",
      "w", "(", ")", "-", "t", "<", "6", "0", "0", "0", ";", ")", ";">>

FragOnce ==
    <<"i", "f", "(", "g", "l", "o", "b", "a", "l", "T", "h", "i", "s", ".",
      "n", ")", "t", "h", "r", "o", "w", " ", "n", "e", "w", " ", "E", "r",
      "r", "o", "r", "(", "'", "a", "g", "a", "i", "n", "'", ")", ";", "g",
      "l", "o", "b", "a", "l", "T", "h", "i", "s", ".", "n", "=", "1">>

FragPyPrint ==
    <<"p", "r", "i", "n", "t", "(", "\"", "h", "i", "\"", ")">>

FragEcho ==
    <<"e", "c", "h", "o", " ", "h", "i">>

FragSelect ==
    <<"S", "E", "L", "E", "C", "T", " ", "1">>

FragEval ==
    <<"e", "v", "a", "l", "(", "'", "1", "'", ")">>

FragRmRf ==
    <<"r", "m", " ", "-", "r", "f", " ", "/">>

FragDropTable ==
    <<"d", "r", "o", "p", " ", "t", "a", "b", "l", "e", " ", "t">>

----------------------------------------------------------------------------
(* The JavaScript engine, for the statements the submitted snippets use    *)

\* A JavaScript value: typeof v, String(v), JSON.stringify(v, null, 2) and
\* v.message (Undefined for a value that has no such property).
JsValue(type, str, json, message) ==
    [type |-> type, str |-> str, json |-> json, message |-> message]

ValHi   == JsValue("string", <<"h", "i">>, <<"\"", "h", "i", "\"">>, Undefined)
ValA    == JsValue("string", <<"a">>, <<"\"", "a", "\"">>, Undefined)
ValObjB ==
    JsValue("object", <<"[object Object]">>,
            <<"{", "\n", " ", " ", "\"", "b", "\"", ":", " ", "1", "\n", "}">>,
            Undefined)
ValX    == JsValue("string", <<"x">>, <<"\"", "x", "\"">>, Undefined)
ValOops == JsValue("string", <<"o", "o", "p", "s">>,
                   <<"\"", "o", "o", "p", "s", "\"">>, Undefined)
ErrBoom == JsValue("object", <<"Error: boom">>, <<"{", "}">>, "boom")
ErrAgain == JsValue("object", <<"Error: again">>, <<"{", "}">>, "again")
ErrPrintNotDefined ==
    JsValue("object", <<"ReferenceError: print is not defined">>,
            <<"{", "}">>, "print is not defined")

\* The milliseconds the busy-wait snippet spins for (the bound it writes).
SpinMs == 6000

\* A line without its trailing // comment (no snippet writes // in a string).
StripComment(t) ==
    LET starts(i) == t[i] = "/" /\ t[i + 1] = "/"
    IN  IF \E i \in 1..(Len(t) - 1) : starts(i)
        THEN Slice(t, 1, (CHOOSE i \in 1..(Len(t) - 1) :
                            starts(i) /\ \A k \in 1..(i - 1) : ~starts(k)) - 1)
        ELSE t

\* What one line of a snippet does when run: the statements whose effect
\* the handler can see, zero or one of them; the statement syntaxError stands for a line that does not parse.
JsLine(line) ==
    LET t == Trim(StripComment(line))
    IN  CASE t = <<>>         -> <<>>
          [] t = FragLogHi    -> <<[op |-> "call", method |-> "log", args |-> <<ValHi>>]>>
          [] t = FragLogPair  -> <<[op |-> "call", method |-> "log", args |-> <<ValA, ValObjB>>]>>
          [] t = FragErrX     -> <<[op |-> "call", method |-> "error", args |-> <<ValX>>]>>
          [] t = FragThrowErr -> <<[op |-> "throw", value |-> ErrBoom]>>
          [] t = FragThrowStr -> <<[op |-> "throw", value |-> ValOops]>>
          [] t = FragLoop     -> <<[op |-> "loop"]>>
          [] t = FragSpin     -> <<[op |-> "spin", ms |-> SpinMs]>>
          [] t = FragOnce     -> <<[op |-> "once", value |-> ErrAgain]>>
          [] t = FragPyPrint  -> <<[op |-> "throw", value |-> ErrPrintNotDefined]>>
          [] t = FragEval     -> <<>>
          [] OTHER            -> <<[op |-> "syntaxError"]>>

\* new Function(...Object.keys(sandbox), wrappedCode): the statements of the
\* function body, or a SyntaxError when some line does not parse.
JsCompile(code) ==
    LET lines == SplitLines(code)
    IN  IF \E n \in 1..Len(lines) :
              /\ JsLine(lines[n]) # <<>>
              /\ JsLine(lines[n])[1].op = "syntaxError"
        THEN [ok |-> FALSE, prog |-> <<>>, message |-> "SyntaxError"]
        ELSE [ok |-> TRUE,
              prog |-> Flatten([n \in 1..Len(lines) |-> JsLine(lines[n])]),
              message |-> Undefined]

\* A captured console whose log writes String(arg) for every argument.
ConsoleLineStringOnly(method, args) ==
    LET plain == [n \in 1..Len(args) |-> args[n].str]
    IN  CASE method = "log"   -> Join(plain, <<" ">>)
          [] method = "error" -> <<"ERROR: ">> \o Join(plain, <<" ">>)
          [] method = "warn"  -> <<"WARN: ">> \o Join(plain, <<" ">>)

\* The line one call of the captured console appends to the output buffer.
ConsoleLine(method, args) ==
    LET logged == [n \in 1..Len(args) |->
                     IF args[n].type = "object" THEN args[n].json
                     ELSE args[n].str]
        plain  == [n \in 1..Len(args) |-> args[n].str]
    IN  CASE method = "log"   -> Join(logged, <<" ">>)
          [] method = "error" -> <<"ERROR: ">> \o Join(plain, <<" ">>)
          [] method = "warn"  -> <<"WARN: ">> \o Join(plain, <<" ">>)

----------------------------------------------------------------------------
(* Requests                                                                *)

\* The most lines a submitted snippet has.
MaxFrags == 2

\* The lines the submitted snippets are made of.
Fragments ==
    {FragLogHi, FragErrX, FragThrowErr, FragThrowStr, FragLoop, FragSpin,
     FragPyPrint, FragEcho, FragSelect, FragEval, FragRmRf, FragDropTable}

\* The snippets of at most MaxFrags lines.
Texts ==
    {Join(fs, <<"\n">>) :
        fs \in UNION {[1..n -> Fragments] : n \in 0..MaxFrags}}

\* The character that pads a snippet to the length bound and beyond it.
FillChar == "/"

\* A code string: text followed by pad fill characters.
Code(text, pad) == [text |-> text, pad |-> pad]

\* The characters of a code string.
Chars(c) == c.text \o [i \in 1..c.pad |-> FillChar]

\* code.length
CodeLength(c) == Len(c.text) + c.pad

\* The snippets of one to MaxFrags lines that only call console.log, as the
\* sequences of their lines.
LogOnlySnippets ==
    UNION {[1..n -> {FragLogHi, FragLogPair}] : n \in 1..MaxFrags}

\* The code strings submitted: every snippet, the snippets that only call
\* console.log, the snippet that marks the global object, and the empty, a
\* harmless and two denylisted snippets padded by MaxCodeLength characters.
Codes ==
    {Code(t, 0) : t \in Texts}
    \cup {Code(Join(ls, <<"\n">>), 0) : ls \in LogOnlySnippets}
    \cup {Code(FragOnce, 0)}
    \cup {Code(t, MaxCodeLength) : t \in {<<>>, FragLogHi, FragRmRf, FragEval}}

\* The language tags submitted; Undefined is a body without the field.
Languages == SupportedLanguages \cup {"ruby", Undefined}

\* What await req.json() yields: the parsed body, or a SyntaxError. A body
\* with hasCode FALSE has no code field.
Bodies ==
    {[kind |-> "json", hasCode |-> TRUE, code |-> c, language |-> l] :
        c \in Codes, l \in Languages}
    \cup {[kind |-> "json", hasCode |-> FALSE, code |-> Code(<<>>, 0),
           language |-> l] : l \in Languages}
    \cup {[kind |-> "invalid", hasCode |-> FALSE, code |-> Code(<<>>, 0),
           language |-> Undefined]}

NoBody ==
    [kind |-> "none", hasCode |-> FALSE, code |-> Code(<<>>, 0),
     language |-> Undefined]

\* The callers the identity service knows.
Users == {"u1", "u2"}
NoUser == "nobody"

\* The authorization headers sent; Undefined is a request without one.
AuthHeaders == {Undefined, "Bearer expired", "Bearer tok_u1", "Bearer tok_u2"}

\* supabase.auth.getUser(token): the user of a valid token.
getUser(header) ==
    CASE header = "Bearer tok_u1" -> "u1"
      [] header = "Bearer tok_u2" -> "u2"
      [] OTHER                    -> NoUser

Methods == {"OPTIONS", "POST"}

----------------------------------------------------------------------------
(* The request handler                                                     *)

VARIABLES
    pc,         \* where the handler of the request in hand stands
    req,        \* the request in hand: its method and authorization header
    user,       \* the user getUser returned for it
    body,       \* what req.json() yielded for it
    clock,      \* performance.now(), in ms since the request arrived
    startTime,  \* the handler's startTime
    timeoutId,  \* whether the timer of executeJavaScript is armed
    output,     \* the output buffer of executeJavaScript
    prog,       \* the statements the snippet has yet to run
    result,     \* the ExecutionResult the evaluator returned
    resp,       \* the Response the handler returned
    ran,        \* history: the stages that ran for the request in hand
    guardStart, \* history: the clock when the denylist loop began
    calls,      \* history: the requests each caller has made in this window
    globalThis, \* the global object of the isolate that serves the requests
    memo        \* history: one answered request, kept for comparison

\* The rate limiter and the handler of the AI assistant function.
VARIABLES
    requestCounts, \* the Map from client id to {count, resetTime}
    now,           \* Date.now()
    openAIApiKey,  \* the key read from the environment when the module loads
    ai,            \* the request the AI assistant handler has in hand
    lastCall,      \* history: the latest call of rateLimit
    made           \* history: the calls of rateLimit in each client's window

limiterVars == <<requestCounts, now, openAIApiKey, ai, lastCall, made>>

\* The service worker.
VARIABLES
    worker,       \* the variant of the worker script that is installed
    apiCache,     \* the entries of the cache API_CACHE, by request URL
    swClients,    \* the window clients the worker controls
    inbox,        \* the messages posted to each client for the request in hand
    sw,           \* the API request handleApiRequest has in hand
    storePending  \* whether storeFailedRequest awaits clients.matchAll()

workerVars == <<worker, apiCache, swClients, inbox, sw, storePending>>

\* The database behind the backend API.
VARIABLES
    rows,   \* the rows of the four tables
    dbLast  \* history: the latest statement, who ran it and what it returned

dbVars == <<rows, dbLast>>

\* The page: the instances of the hook useOfflineStorage.
VARIABLES
    navigatorOnLine, \* navigator.onLine
    localStorage,    \* the list under the key 'devnotes-pending-actions'
    isOnline,        \* the state isOnline of each instance of the hook
    pendingActions,  \* the state pendingActions of each instance
    syncing,         \* whether the timer of syncPendingActions is armed
    backend,         \* the changes applied to the backend tables
    recorded,        \* history: the actions addPendingAction has recorded
    lastEvent        \* history: the latest event of the window

offlineVars ==
    <<navigatorOnLine, localStorage, isOnline, pendingActions, syncing,
      backend, recorded, lastEvent>>

\* The note form: saveLinks and the table note_links.
VARIABLES
    noteLinks,  \* the rows of the table note_links
    linkForm    \* the call of saveLinks in progress

linkVars == <<noteLinks, linkForm>>

\* The page Index: its lists, the backend rows and the offline cache.
VARIABLES
    backendRows,     \* the user's rows of the tables commands and notes
    displayed,       \* the states commands and notes of the page
    offlineData,     \* the lists under the key 'devnotes-offline-data'
    requests,        \* the requests to the backend that are in flight
    minted,          \* the ids given to commands so far
    offlineChanges,  \* history: the changes made since the window is offline
    lastStep         \* history: what the latest step of the page did

pageVars ==
    <<backendRows, displayed, offlineData, requests, minted, offlineChanges,
      lastStep>>

\* The state of the other components.
componentVars ==
    <<limiterVars, workerVars, dbVars, offlineVars, linkVars, pageVars>>

otherVars == <<memo, componentVars>>

vars ==
    <<pc, req, user, body, clock, startTime, timeoutId, output, prog, result,
      resp, ran, guardStart, calls, globalThis, otherVars>>

\* The state of the code-execution handler.
handlerVars ==
    <<pc, req, user, body, clock, startTime, timeoutId, output, prog, result,
      resp, ran, guardStart, calls, globalThis, memo>>

\* The most a step that takes time advances the clock, in ms.
Tick == 1

\* The time a step of the handler may take.
Elapse == {0, Tick}

\* The time one slice of an endless loop takes, and the clock at which the
\* model stops following it.
LoopSliceMs == 1000
MaxClock == 8000

\* The requests by one caller that the model counts.
MaxCalls == 6

Evaluators ==
    {"executeJavaScript", "executePython", "executeBash", "executeSQL"}

NoResult == [output |-> <<>>, error |-> Undefined, exitCode |-> -1,
             executionTime |-> 0]

\* No request is remembered.
NoMemo ==
    [code |-> Code(<<>>, 0), language |-> "none", verdict |-> "none",
     exitCode |-> -1]

NoResponse == [status |-> 0, kind |-> "none", body |-> NoResult]

\* new Response('ok', { headers: corsHeaders })
PreflightResponse == [status |-> 200, kind |-> "text", body |-> NoResult]

\* A catch block that hides the thrown error's message behind a fixed one.
CatchResponseGenericMessage(message) ==
    [status |-> 400, kind |-> "json",
     body |-> ExecutionResult(<<>>, "Internal server error", 1, 0)]

\* The handler's catch block: the envelope for a thrown error.
CatchResponse(message) ==
    [status |-> 400, kind |-> "json",
     body |-> ExecutionResult(<<>>, message, 1, 0)]

\* new Response(JSON.stringify(result), ...): status 200 by default.
ResultResponse(r) == [status |-> 200, kind |-> "json", body |-> r]

\* An input validation that leaves out the check of the code's length.
ValidationErrorNoLengthCheck(b) ==
    IF ~b.hasCode \/ CodeLength(b.code) = 0
       \/ b.language = Undefined \/ b.language = ""
    THEN "Code and language are required"
    ELSE IF b.language \notin SupportedLanguages
    THEN "Unsupported language"
    ELSE Undefined

\* The message of the error the input validation throws, or Undefined.
ValidationError(b) ==
    IF ~b.hasCode \/ CodeLength(b.code) = 0
       \/ b.language = Undefined \/ b.language = ""
    THEN "Code and language are required"
    ELSE IF CodeLength(b.code) > MaxCodeLength
    THEN "Code too long (max 10,000 characters)"
    ELSE IF b.language \notin SupportedLanguages
    THEN "Unsupported language"
    ELSE Undefined

\* A denylist loop whose patterns have all lost the i flag.
GuardErrorCaseSensitive(code) ==
    IF \E n \in 1..Len(dangerousPatterns) :
          Test([dangerousPatterns[n] EXCEPT !.icase = FALSE], code)
    THEN "Code contains potentially dangerous operations"
    ELSE Undefined

\* The denylist loop: the message of the error it throws, or Undefined.
GuardError(code) ==
    IF DangerousMatch(code)
    THEN "Code contains potentially dangerous operations"
    ELSE Undefined

\* The evaluator the switch picks for a language.
EvaluatorOf(language) ==
    CASE language = "javascript" -> "executeJavaScript"
      [] language = "python"     -> "executePython"
      [] language = "bash"       -> "executeBash"
      [] language = "sql"        -> "executeSQL"

\* The result of a simulated evaluator.
Simulate(language, code) ==
    CASE language = "python" -> executePython(code)
      [] language = "bash"   -> executeBash(code)
      [] language = "sql"    -> executeSQL(code)

Init ==
    /\ pc = "idle"
    /\ req = [method |-> "none", authorization |-> Undefined]
    /\ user = NoUser
    /\ body = NoBody
    /\ clock = 0
    /\ startTime = 0
    /\ timeoutId = FALSE
    /\ output = <<>>
    /\ prog = <<>>
    /\ result = NoResult
    /\ resp = NoResponse
    /\ ran = {}
    /\ guardStart = 0
    /\ calls = [u \in Users |-> 0]
    /\ globalThis = [n |-> Undefined]
    /\ memo = NoMemo

\* The handler throws: its catch block answers.
Throw(message) ==
    /\ pc' = "responded"
    /\ resp' = CatchResponse(message)

\* serve(async (req) => ...) up to the await of getUser: the preflight
\* answer, or the check of the authorization header.
Receive(method, header) ==
    /\ pc \in {"idle", "responded"}
    /\ getUser(header) \in Users => calls[getUser(header)] < MaxCalls
    /\ req' = [method |-> method, authorization |-> header]
    /\ user' = NoUser
    /\ body' = NoBody
    /\ clock' = 0
    /\ startTime' = 0
    /\ guardStart' = 0
    /\ timeoutId' = FALSE
    /\ output' = <<>>
    /\ prog' = <<>>
    /\ result' = NoResult
    /\ ran' = {}
    /\ IF method = "OPTIONS"
       THEN pc' = "responded" /\ resp' = PreflightResponse
       ELSE IF header = Undefined
       THEN Throw("Authorization header required")
       ELSE pc' = "auth" /\ resp' = NoResponse
    /\ UNCHANGED calls
    /\ UNCHANGED <<globalThis, otherVars>>

\* getUser resolves: an error or no user throws, else the body is awaited.
Authenticate(counted) ==
    /\ pc = "auth"
    /\ IF getUser(req.authorization) = NoUser
       THEN /\ Throw("Invalid or expired token")
            /\ UNCHANGED <<user, calls>>
       ELSE /\ user' = getUser(req.authorization)
            /\ calls' = IF counted THEN [calls EXCEPT ![user'] = @ + 1]
                         ELSE calls
            /\ pc' = "body"
            /\ UNCHANGED resp
    /\ UNCHANGED <<req, body, clock, startTime, timeoutId, output, prog,
                   result, ran, guardStart>>
    /\ UNCHANGED <<globalThis, otherVars>>

\* executeJavaScript up to the call of the compiled function.
StartJavaScript(code) ==
    LET compiled == JsCompile(code)
    IN  IF compiled.ok
        THEN /\ pc' = "js"
             /\ timeoutId' = TRUE
             /\ prog' = compiled.prog
             /\ result' = NoResult
        ELSE /\ pc' = "settle"
             /\ timeoutId' = FALSE
             /\ prog' = <<>>
             /\ result' = FailureResult(compiled.message)

\* req.json() resolves: validation, the denylist loop (which takes some
\* time) and the switch with its default branch, up to the await of the
\* evaluator.
Dispatch(b) ==
    LET code   == Chars(b.code)
        guard  == GuardError(code)
    IN  /\ pc = "body"
        /\ body' = b
        /\ IF b.kind = "invalid"
           THEN /\ Throw("Unexpected token in JSON")
                /\ UNCHANGED <<clock, startTime, timeoutId, prog, result, ran,
                               guardStart>>
           ELSE IF ValidationError(b) # Undefined
           THEN /\ Throw(ValidationError(b))
                /\ ran' = {"validate"}
                /\ UNCHANGED <<clock, startTime, timeoutId, prog, result,
                               guardStart>>
           ELSE IF guard # Undefined
           THEN /\ Throw(guard)
                /\ ran' = {"validate", "guard"}
                /\ guardStart' = clock
                /\ \E d \in Elapse : clock' = clock + d
                /\ UNCHANGED <<startTime, timeoutId, prog, result>>
           ELSE IF b.language \notin SupportedLanguages
           THEN /\ Throw("Unsupported language: " \o b.language)
                /\ ran' = {"validate", "guard"}
                /\ guardStart' = clock
                /\ \E d \in Elapse : clock' = clock + d
                /\ startTime' = clock'
                /\ UNCHANGED <<timeoutId, prog, result>>
           ELSE /\ ran' = {"validate", "guard", EvaluatorOf(b.language)}
                /\ guardStart' = clock
                /\ \E d \in Elapse : clock' = clock + d
                /\ startTime' = clock'
                /\ resp' = NoResponse
                /\ IF b.language = "javascript"
                   THEN StartJavaScript(code)
                   ELSE /\ pc' = "settle"
                        /\ result' = Simulate(b.language, code)
                        /\ UNCHANGED <<timeoutId, prog>>
        /\ UNCHANGED <<req, user, output, calls>>
        /\ UNCHANGED <<globalThis, otherVars>>

\* The snippet calls a method of the captured console.
JsCall ==
    /\ pc = "js"
    /\ prog # <<>>
    /\ Head(prog).op = "call"
    /\ output' = Append(output, ConsoleLine(Head(prog).method, Head(prog).args))
    /\ prog' = Tail(prog)
    /\ UNCHANGED <<pc, req, user, body, clock, startTime, timeoutId, result,
                   resp, ran, guardStart, calls>>
    /\ UNCHANGED <<globalThis, otherVars>>

\* The snippet throws: finally clears the timer, and the catch block of
\* executeJavaScript returns the failure with the thrown value's message.
JsThrow ==
    /\ pc = "js"
    /\ prog # <<>>
    /\ Head(prog).op = "throw"
    /\ timeoutId' = FALSE
    /\ result' = FailureResult(Head(prog).value.message)
    /\ pc' = "settle"
    /\ UNCHANGED <<req, user, body, clock, startTime, output, prog, resp,
                   ran, guardStart, calls>>
    /\ UNCHANGED <<globalThis, otherVars>>

\* The snippet busy-waits: the clock advances and nothing else runs.
JsSpin ==
    /\ pc = "js"
    /\ prog # <<>>
    /\ Head(prog).op = "spin"
    /\ clock' = clock + Head(prog).ms
    /\ prog' = Tail(prog)
    /\ UNCHANGED <<pc, req, user, body, startTime, timeoutId, output, result,
                   resp, ran, guardStart, calls>>
    /\ UNCHANGED <<globalThis, otherVars>>

\* The snippet loops without end: the clock advances and the statement
\* stays. The timer callback has no step of its own: the function runs to
\* its end inside one turn of the event loop, and finally clears the timer
\* before that turn ends, so the callback is never due while it could run.
JsLoop ==
    /\ pc = "js"
    /\ prog # <<>>
    /\ Head(prog).op = "loop"
    /\ clock < MaxClock
    /\ clock' = clock + LoopSliceMs
    /\ UNCHANGED <<pc, req, user, body, startTime, timeoutId, output, prog,
                   result, resp, ran, guardStart, calls>>
    /\ UNCHANGED <<globalThis, otherVars>>

\* The snippet throws if the global object carries its mark, and else
\* leaves the mark there: the compiled function runs in the global scope.
JsOnce ==
    /\ pc = "js"
    /\ prog # <<>>
    /\ Head(prog).op = "once"
    /\ IF globalThis.n # Undefined
       THEN /\ timeoutId' = FALSE
            /\ result' = FailureResult(Head(prog).value.message)
            /\ pc' = "settle"
            /\ UNCHANGED <<prog, globalThis>>
       ELSE /\ globalThis' = [globalThis EXCEPT !.n = "1"]
            /\ prog' = Tail(prog)
            /\ UNCHANGED <<pc, timeoutId, result>>
    /\ UNCHANGED <<req, user, body, clock, startTime, output, resp, ran,
                   guardStart, calls, otherVars>>

\* The snippet ends: finally clears the timer and executeJavaScript
\* returns the joined buffer.
JsReturn ==
    /\ pc = "js"
    /\ prog = <<>>
    /\ timeoutId' = FALSE
    /\ result' = ExecutionResult(Join(output, <<"\n">>), Undefined, 0, 0)
    /\ pc' = "settle"
    /\ UNCHANGED <<req, user, body, clock, startTime, output, prog, resp,
                   ran, guardStart, calls>>
    /\ UNCHANGED <<globalThis, otherVars>>

\* The evaluator's promise resolves, d ms later: the handler sets the
\* elapsed time and answers with the result.
Respond(d) ==
    /\ pc = "settle"
    /\ clock' = clock + d
    /\ result' = [result EXCEPT !.executionTime = clock' - startTime]
    /\ resp' = ResultResponse(result')
    /\ pc' = "responded"
    /\ UNCHANGED <<req, user, body, startTime, timeoutId, output, prog, ran,
                   guardStart, calls>>
    /\ UNCHANGED <<globalThis, otherVars>>

\* The steps of the handler, for authorization headers and bodies drawn
\* from the given sets; counted says whether the history of calls is kept.
Handle(headers, bodies, counted) ==
    \/ \E m \in Methods, h \in headers : Receive(m, h)
    \/ Authenticate(counted)
    \/ \E b \in bodies : Dispatch(b)
    \/ JsCall
    \/ JsThrow
    \/ JsSpin
    \/ JsLoop
    \/ JsOnce
    \/ JsReturn
    \/ \E d \in Elapse : Respond(d)

Next == Handle(AuthHeaders \ {"Bearer tok_u2"}, Bodies, FALSE)

\* The one-line snippets, sent as javascript: the bodies of the requests
\* whose callers are counted.
RateBodies ==
    {b \in Bodies :
        /\ b.kind = "json"
        /\ b.hasCode
        /\ b.language = "javascript"
        /\ b.code.pad = 0
        /\ b.code.text \in Fragments \cup {<<>>, FragOnce}}

\* The handler with the calls of each caller counted, for one rate-limit
\* window.
RateNext == Handle(AuthHeaders, RateBodies, TRUE)

\* The guard's verdict on the request in hand, as the answer shows it.
GuardVerdict ==
    IF "guard" \notin ran THEN "not run"
    ELSE IF resp.body.error = "Code contains potentially dangerous operations"
    THEN "rejected"
    ELSE "passed"

\* History: the first answered submission is kept, with the guard's verdict
\* and the exit code of its answer. No step of the program corresponds.
Remember ==
    /\ pc = "responded"
    /\ body.kind = "json"
    /\ memo = NoMemo
    /\ memo' = [code |-> body.code, language |-> body.language,
                verdict |-> GuardVerdict, exitCode |-> resp.body.exitCode]
    /\ UNCHANGED <<pc, req, user, body, clock, startTime, timeoutId, output,
                   prog, result, resp, ran, guardStart, calls, globalThis,
                   componentVars>>

\* The one-line snippets in each of the four languages: the bodies of the
\* submissions that are compared.
MemoBodies ==
    {b \in Bodies :
        /\ b.kind = "json"
        /\ b.hasCode
        /\ b.language \in SupportedLanguages
        /\ b.code.pad = 0
        /\ b.code.text \in Fragments \cup {FragOnce}}

\* The handler, with one answered submission remembered.
MemoNext ==
    \/ Handle({"Bearer tok_u1"}, MemoBodies, FALSE)
    \/ Remember


----------------------------------------------------------------------------
(* Properties                                                              *)

\* The handler has answered a request that was not a preflight.
Answered == pc = "responded" /\ req.method # "OPTIONS"

\* The submitted code strings that match a pattern of the denylist.
DenylistedCodes ==
    {c \in Codes :
        \E n \in 1..Len(dangerousPatterns) : Test(dangerousPatterns[n], Chars(c))}

\* The body read for the request in hand carries a code string that matches
\* a pattern of the denylist.
CodeIsDenylisted ==
    /\ body.kind = "json"
    /\ body.hasCode
    /\ body.code \in DenylistedCodes

\* C1: the denylist check runs before any evaluator. For a request whose
\* code matches a denylist pattern no evaluator is invoked, and the request
\* is answered with a non-zero exit code; a request whose body is never read
\* (no valid credential) reaches no evaluator either.
C1_GuardBeforeEvaluator ==
    /\ CodeIsDenylisted =>
          /\ ran \cap Evaluators = {}
          /\ Answered
          /\ resp.kind = "json"
          /\ resp.body.exitCode # 0
    /\ (Answered /\ user = NoUser) =>
          /\ ran = {}
          /\ resp.body.exitCode # 0

\* C1 witness: the guard has rejected a denylisted snippet sent as bash.
C1_Witness ==
    /\ CodeIsDenylisted
    /\ "guard" \in ran
    /\ body.language = "bash"
    /\ resp.body.exitCode = 1

\* The request in hand is authenticated and its body is well formed: a
\* supported language and a code string that is not empty.
WellFormedBody ==
    /\ user # NoUser
    /\ body.kind = "json"
    /\ body.hasCode
    /\ CodeLength(body.code) > 0
    /\ body.language \in SupportedLanguages

\* The answer is the guard's rejection: exit code 1, no output, the
\* dangerous-operations message.
GuardRejection ==
    /\ Answered
    /\ resp.kind = "json"
    /\ resp.body.exitCode = 1
    /\ resp.body.output = <<>>
    /\ resp.body.error = "Code contains potentially dangerous operations"

\* C2 as stated: every authenticated request whose code matches a denylist
\* pattern, in any of the four languages, gets the guard's rejection.
C2_DenylistedIsRejected ==
    (WellFormedBody /\ CodeIsDenylisted) => GuardRejection

\* C2 amended: every authenticated request whose code is at most
\* MaxCodeLength characters long and matches a denylist pattern, in any of
\* the four languages, gets the guard's rejection.
C2_DenylistedWithinBoundIsRejected ==
    (/\ WellFormedBody
     /\ CodeIsDenylisted
     /\ CodeLength(body.code) <= MaxCodeLength) => GuardRejection

\* C2 witness: a denylisted SQL snippet of two lines has been rejected.
C2_Witness ==
    /\ WellFormedBody
    /\ CodeIsDenylisted
    /\ body.language = "sql"
    /\ body.code.pad = 0
    /\ Len(SplitLines(body.code.text)) = 2
    /\ GuardRejection

\* The grace period after the timeout within which a result is due, in ms.
GraceMs == 1000

\* C3: a JavaScript snippet that runs past the timeout yields a terminal
\* result. executeJavaScript is never still running GraceMs after the
\* timeout, and a run that took longer than the timeout returns exit code 1
\* with the timeout error.
C3_TimeoutYieldsResult ==
    /\ pc = "js" => clock - startTime <= TimeoutMs + GraceMs
    /\ (/\ pc = "settle"
        /\ "executeJavaScript" \in ran
        /\ clock - startTime > TimeoutMs) =>
          /\ result.exitCode = 1
          /\ result.error = "Execution timeout (5 seconds)"

\* C4: a JavaScript snippet that fails after k console calls returns exit
\* code 1 with the k buffered lines as its output.
C4_PartialOutputPreserved ==
    (/\ pc = "settle"
     /\ "executeJavaScript" \in ran
     /\ result.exitCode = 1) => result.output = Join(output, <<"\n">>)

\* C5: every processed attempt (authenticated, well formed, code within the
\* length bound) is answered with status 200, whether the snippet
\* succeeded, the snippet failed or the guard rejected the code.
C5_ProcessedIs200 ==
    (/\ Answered
     /\ WellFormedBody
     /\ CodeLength(body.code) <= MaxCodeLength) => resp.status = 200

\* C6: a request without an authorization header, or with a token the
\* identity service rejects, is answered with status 401 and exit code 1,
\* and neither validation, the guard nor an evaluator runs for it.
C6_Unauthorized401 ==
    (Answered /\ getUser(req.authorization) = NoUser) =>
        /\ resp.status = 401
        /\ resp.body.exitCode = 1
        /\ ran = {}

\* The calls per caller and window that the specification allows.
RateLimit == 5

\* C7: when one caller makes more than RateLimit calls in a window, the
\* calls beyond the limit are answered with status 429 and exit code 1, and
\* neither the guard nor an evaluator runs for them.
C7_SixthCallRejected ==
    (Answered /\ WellFormedBody /\ calls[user] > RateLimit) =>
        /\ resp.status = 429
        /\ resp.body.exitCode = 1
        /\ ran \cap ({"guard"} \cup Evaluators) = {}

\* C8: every answer to a request that is not a preflight carries a well
\* formed envelope: output a string, executionTime a number that is not
\* negative, exitCode 0 or 1, and error present exactly when exitCode is 1.
C8_WellFormedEnvelope ==
    Answered =>
        /\ resp.kind = "json"
        /\ resp.body.output \in Seq(STRING)
        /\ resp.body.executionTime \in Nat
        /\ resp.body.exitCode \in {0, 1}
        /\ (resp.body.error # Undefined) <=> (resp.body.exitCode = 1)

\* C9: the executionTime of every result is the time that elapsed since the
\* guard began, on the guard's rejection as on the evaluator's success and
\* failure.
C9_MeasuredElapsed ==
    (Answered /\ "guard" \in ran) =>
        resp.body.executionTime = clock - guardStart

\* The body read for the request in hand names an unsupported language, or
\* its code is missing, empty or longer than MaxCodeLength.
InvalidInput ==
    /\ body.kind = "json"
    /\ \/ body.language \notin SupportedLanguages
       \/ ~body.hasCode
       \/ CodeLength(body.code) = 0
       \/ CodeLength(body.code) > MaxCodeLength

\* C10: a request with an unsupported language, or with code that is empty
\* or longer than MaxCodeLength, is rejected before any evaluator runs: the
\* answer is not 200, its exit code is 1 and its output is empty.
C10_InvalidInputRejected ==
    InvalidInput =>
        /\ ran \cap Evaluators = {}
        /\ Answered
        /\ resp.status # 200
        /\ resp.body.exitCode = 1
        /\ resp.body.output = <<>>

\* C10 witness: a harmless snippet padded beyond the bound, sent as
\* javascript, has been rejected.
C10_Witness ==
    /\ InvalidInput
    /\ body.language = "javascript"
    /\ body.code \notin DenylistedCodes
    /\ CodeLength(body.code) > MaxCodeLength
    /\ Answered
    /\ resp.status = 400

\* The stringified arguments of the console.log call a line makes: a string
\* as it is, an object as JSON indented by two spaces.
LoggedArguments(line) ==
    CASE line = FragLogHi   -> << <<"h", "i">> >>
      [] line = FragLogPair ->
            << <<"a">>,
               <<"{", "\n", " ", " ", "\"", "b", "\"", ":", " ", "1", "\n",
                 "}">> >>

\* The output the calls of such a snippet are to leave: the arguments of a
\* call joined by a space, the calls joined by a newline.
ExpectedOutput(ls) ==
    Join([n \in 1..Len(ls) |-> Join(LoggedArguments(ls[n]), <<" ">>)],
         <<"\n">>)

\* executeJavaScript has returned for the snippet with the lines ls.
JavaScriptReturned(ls) ==
    /\ pc \in {"settle", "responded"}
    /\ "executeJavaScript" \in ran
    /\ body.code = Code(Join(ls, <<"\n">>), 0)

\* C11: for a JavaScript snippet that only calls console.log and is not on
\* the denylist, executeJavaScript returns exit code 0, no error, and as
\* output the stringified arguments of each call in call order, a call's
\* arguments joined by a space and the calls joined by a newline.
C11_LogOutput ==
    \A ls \in LogOnlySnippets :
        JavaScriptReturned(ls) =>
            /\ result.exitCode = 0
            /\ result.error = Undefined
            /\ result.output = ExpectedOutput(ls)

\* C11 witness: the snippet that logs a string and an object, then a
\* string, has returned its two calls on four lines.
C11_Witness ==
    /\ JavaScriptReturned(<<FragLogPair, FragLogHi>>)
    /\ body.code \notin DenylistedCodes
    /\ result.exitCode = 0
    /\ Len(SplitLines(result.output)) = 4

\* The request in hand submits the remembered code and language again, and
\* is answered.
SubmittedAgain ==
    /\ Answered
    /\ memo # NoMemo
    /\ body.kind = "json"
    /\ body.code = memo.code
    /\ body.language = memo.language

\* C12: a (code, language) submitted twice, with any requests in between,
\* gets the same guard verdict and the same exit code both times.
C12_SameVerdictAndExitCode ==
    SubmittedAgain =>
        /\ GuardVerdict = memo.verdict
        /\ resp.body.exitCode = memo.exitCode

----------------------------------------------------------------------------
(* The AI assistant function: its rate limiter and its handler             *)

RATE_LIMIT == 5
RATE_WINDOW == 60 * 1000

\* The windows the clock runs through, and the calls in one window after
\* which the model stops counting.
MaxWindows == 2
MaxCount == 7

\* The instants Date.now() is read at: the start of the clock, the end of
\* each window that began there or a millisecond late, and the millisecond
\* after it.
Instants ==
    {k * RATE_WINDOW + d : k \in 0..MaxWindows, d \in {0, 1}}

\* The x-forwarded-for headers of the requests; Undefined is no header.
ForwardedFor == {Undefined, "", "10.0.0.1"}

\* req.headers.get('x-forwarded-for') || 'unknown'
ClientIdOf(header) ==
    IF header = Undefined \/ header = "" THEN "unknown" ELSE header

ClientIds == {ClientIdOf(h) : h \in ForwardedFor}

\* requestCounts.get(clientId) || { count: 0, resetTime: now + RATE_WINDOW }
RecordOf(counts, clientId, t) ==
    IF clientId \in DOMAIN counts THEN counts[clientId]
    ELSE [count |-> 0, resetTime |-> t + RATE_WINDOW]

\* A limiter that rejects the call that reaches the limit.
rateLimitInclusive(counts, clientId, t) ==
    LET record == RecordOf(counts, clientId, t)
        next   == IF t > record.resetTime
                  THEN [count |-> 1, resetTime |-> t + RATE_WINDOW]
                  ELSE [record EXCEPT !.count = @ + 1]
    IN  [counts |-> (clientId :> next) @@ counts,
         ok     |-> ~(next.count >= RATE_LIMIT)]

\* A limiter whose window slides: every call restarts it.
rateLimitSliding(counts, clientId, t) ==
    LET record == RecordOf(counts, clientId, t)
        next   == IF t > record.resetTime
                  THEN [count |-> 1, resetTime |-> t + RATE_WINDOW]
                  ELSE [count |-> record.count + 1,
                        resetTime |-> t + RATE_WINDOW]
    IN  [counts |-> (clientId :> next) @@ counts,
         ok     |-> ~(next.count > RATE_LIMIT)]

\* rateLimit(clientId) at the instant t: the Map it leaves and what it
\* returns.
rateLimit(counts, clientId, t) ==
    LET record == RecordOf(counts, clientId, t)
        next   == IF t > record.resetTime
                  THEN [count |-> 1, resetTime |-> t + RATE_WINDOW]
                  ELSE [record EXCEPT !.count = @ + 1]
    IN  [counts |-> (clientId :> next) @@ counts,
         ok     |-> ~(next.count > RATE_LIMIT)]

\* What the OpenAI API answers: its status, or a body without content.
Upstream == {"200", "429", "401", "500", "no content"}

\* The status of the answer to what the OpenAI API returned.
UpstreamStatus(u) ==
    CASE u = "200" -> 200
      [] u = "429" -> 429
      [] u = "401" -> 503
      [] OTHER     -> 500

\* Deno.env.get('OPENAI_API_KEY'): the key, or Undefined when it is not set.
ApiKeys == {Undefined, "sk-key"}

NoRecord == [count |-> 0, resetTime |-> 0]

NoCall ==
    [made |-> FALSE, clientId |-> "none", now |-> 0, had |-> FALSE,
     record |-> NoRecord, before |-> <<>>, allowed |-> FALSE]

AiIdle ==
    [pc |-> "idle", method |-> "none", clientId |-> "none", status |-> 0,
     limited |-> FALSE, fetched |-> FALSE]

LimiterInit ==
    /\ requestCounts = <<>>
    /\ now = 0
    /\ openAIApiKey \in ApiKeys
    /\ ai = AiIdle
    /\ lastCall = NoCall
    /\ made = [c \in ClientIds |-> 0]

\* The state of the components other than the AI assistant function.
notLimiterVars ==
    <<handlerVars, workerVars, dbVars, offlineVars, linkVars,
      pageVars>>

\* serve(async (req) => ...) up to the await of req.json(): the preflight
\* answer, the rate limiter's verdict and the check of the API key.
AiReceive(method, header) ==
    LET clientId == ClientIdOf(header)
        r        == rateLimit(requestCounts, clientId, now)
        had      == clientId \in DOMAIN requestCounts
        sameWindow ==
            had /\ r.counts[clientId].resetTime
                     = requestCounts[clientId].resetTime
    IN  /\ ai.pc \in {"idle", "done"}
        /\ IF method = "OPTIONS"
           THEN /\ ai' = [pc |-> "done", method |-> method,
                          clientId |-> "none", status |-> 200,
                          limited |-> FALSE, fetched |-> FALSE]
                /\ UNCHANGED <<requestCounts, lastCall, made>>
           ELSE /\ had /\ now <= requestCounts[clientId].resetTime
                     => requestCounts[clientId].count < MaxCount
                /\ requestCounts' = r.counts
                /\ lastCall' =
                     [made |-> TRUE, clientId |-> clientId, now |-> now,
                      had |-> had,
                      record |-> IF had THEN requestCounts[clientId]
                                 ELSE NoRecord,
                      before |-> requestCounts, allowed |-> r.ok]
                /\ made' = [made EXCEPT
                              ![clientId] = IF sameWindow THEN @ + 1 ELSE 1]
                /\ ai' = [pc |-> IF r.ok /\ openAIApiKey # Undefined
                                 THEN "json" ELSE "done",
                          method |-> method,
                          clientId |-> clientId,
                          status |-> IF ~r.ok THEN 429
                                     ELSE IF openAIApiKey = Undefined
                                     THEN 503 ELSE 0,
                          limited |-> ~r.ok, fetched |-> FALSE]
        /\ UNCHANGED <<now, openAIApiKey, notLimiterVars>>

\* req.json() resolves and validateRequest runs: a body that is no object or
\* has no command throws, and the catch block answers 500; else the request
\* to the OpenAI API is sent.
AiParse(valid) ==
    /\ ai.pc = "json"
    /\ ai' = IF valid
             THEN [ai EXCEPT !.pc = "fetch", !.fetched = TRUE]
             ELSE [ai EXCEPT !.pc = "done", !.status = 500]
    /\ UNCHANGED <<requestCounts, now, openAIApiKey, lastCall, made,
                   notLimiterVars>>

\* The OpenAI API answers, and the handler answers by its status.
AiAnswer(u) ==
    /\ ai.pc = "fetch"
    /\ ai' = [ai EXCEPT !.pc = "done", !.status = UpstreamStatus(u)]
    /\ UNCHANGED <<requestCounts, now, openAIApiKey, lastCall, made,
                   notLimiterVars>>

\* Time passes.
AiTick ==
    /\ \E t \in Instants : t > now /\ now' = t
    /\ UNCHANGED <<requestCounts, openAIApiKey, ai, lastCall, made,
                   notLimiterVars>>

LimiterNext ==
    \/ \E m \in Methods, h \in ForwardedFor : AiReceive(m, h)
    \/ \E valid \in BOOLEAN : AiParse(valid)
    \/ \E u \in Upstream : AiAnswer(u)
    \/ AiTick

\* The client of the latest call of rateLimit.
Caller == lastCall.clientId

\* C15: within one window of a client the first RATE_LIMIT calls of
\* rateLimit return true and every later call returns false; a rejected
\* request is answered 429 and no request is sent to the OpenAI API for it;
\* a call leaves the records of the other clients as they were.
C15_FivePerWindow ==
    /\ lastCall.made =>
          /\ lastCall.allowed <=> made[Caller] <= RATE_LIMIT
          /\ DOMAIN requestCounts \ {Caller} = DOMAIN lastCall.before \ {Caller}
          /\ \A c \in DOMAIN lastCall.before \ {Caller} :
                requestCounts[c] = lastCall.before[c]
    /\ ai.limited => ai.pc = "done" /\ ai.status = 429 /\ ~ai.fetched

\* C15 witness: the sixth call in a client's window has been rejected and
\* answered 429 with nothing sent upstream, while the other client has a
\* record of its own.
C15_Witness ==
    /\ lastCall.made
    /\ made[Caller] = RATE_LIMIT + 1
    /\ ~lastCall.allowed
    /\ ai.limited /\ ai.status = 429 /\ ~ai.fetched
    /\ DOMAIN requestCounts = ClientIds

\* C16: a call made inside a client's window, admitted or rejected, leaves
\* the window's resetTime where it was; the first call made strictly after
\* resetTime is admitted, sets the count to 1 and starts a window of
\* RATE_WINDOW at the instant of the call.
C16_FixedWindowRecovers ==
    (lastCall.made /\ lastCall.had) =>
        IF lastCall.now > lastCall.record.resetTime
        THEN /\ lastCall.allowed
             /\ requestCounts[Caller].count = 1
             /\ requestCounts[Caller].resetTime = lastCall.now + RATE_WINDOW
        ELSE requestCounts[Caller].resetTime = lastCall.record.resetTime

\* C16 witness: a client whose latest call in the old window was rejected
\* has called again after resetTime and has been admitted.
C16_Witness ==
    /\ lastCall.made /\ lastCall.had
    /\ lastCall.record.count > RATE_LIMIT
    /\ lastCall.now > lastCall.record.resetTime
    /\ lastCall.allowed
    /\ ai.status # 429

----------------------------------------------------------------------------
(* The service worker: handleApiRequest and storeFailedRequest             *)

\* The two variants of the worker script: handleApiRequest of part_000
\* rethrows a network failure, that of part_001 answers 503 for it.
Variants == {"part_000", "part_001"}

\* The URLs of the backend API (their hostname includes supabase.co).
Urls == {"https://x.supabase.co/rest/v1/notes",
         "https://x.supabase.co/rest/v1/commands"}

RequestMethods == {"GET", "POST", "PUT", "PATCH", "DELETE"}

\* The methods whose failed requests are stored.
StoredMethods == {"POST", "PUT", "DELETE"}

\* What a fetch does: it resolves with a response of one of these statuses,
\* or it rejects.
NetworkStatuses == {200, 500}
NetworkOutcomes == NetworkStatuses \cup {0}
NetworkFailure == 0

WindowClients == {"tab1", "tab2"}

\* A Response: its status, where it came from, and the error in its body.
ApiResponse(status, origin, error) ==
    [status |-> status, origin |-> origin, error |-> error]

NoApiResponse == ApiResponse(0, "none", Undefined)

\* response.ok
Ok(response) == response.status >= 200 /\ response.status <= 299

\* new Response(JSON.stringify({ error: 'Network unavailable' }),
\*              { status: 503, ... })
UnavailableResponse == ApiResponse(503, "worker", "Network unavailable")

\* The response fetch resolves with.
NetworkResponse(status) == ApiResponse(status, "network", Undefined)

\* The response cache.match resolves with for an entry put earlier.
CachedResponse(response) == [response EXCEPT !.origin = "cache"]

\* cache.match(request): the entry for the URL, or none.
CacheMatch(cache, url) ==
    IF url \in DOMAIN cache THEN CachedResponse(cache[url]) ELSE NoApiResponse

\* The message storeFailedRequest posts.
FailedRequestMessage(request) ==
    [type |-> "FAILED_REQUEST", url |-> request.url, method |-> request.method]

\* A storeFailedRequest that posts to one client only.
PostedToFirstClient(clients, boxes, message) ==
    IF clients = {} THEN boxes
    ELSE LET c == CHOOSE x \in clients : TRUE
         IN  [boxes EXCEPT ![c] = Append(@, message)]

\* clients.forEach(client => client.postMessage(...)): the inboxes after it.
PostedToClients(clients, boxes, message) ==
    [c \in DOMAIN boxes |->
        IF c \in clients THEN Append(boxes[c], message) ELSE boxes[c]]

SwIdle ==
    [pc |-> "idle", method |-> "none", url |-> "none",
     cachedResponse |-> NoApiResponse, settled |-> "pending",
     response |-> NoApiResponse, failed |-> FALSE, cacheAtStart |-> <<>>,
     notified |-> {}]

WorkerInit ==
    /\ worker \in Variants
    /\ apiCache = <<>>
    /\ swClients = {}
    /\ inbox = [c \in WindowClients |-> <<>>]
    /\ sw = SwIdle
    /\ storePending = FALSE

\* The state of the components other than the service worker.
notWorkerVars ==
    <<handlerVars, limiterVars, dbVars, offlineVars, linkVars,
      pageVars>>

\* handleApiRequest settles: it resolves with a response, or it rejects.
Settle(settled, response) ==
    sw' = [sw EXCEPT !.pc = "done", !.settled = settled,
                     !.response = response]

\* It settles after a fetch that failed.
SettleFailed(settled, response) ==
    sw' = [sw EXCEPT !.pc = "done", !.settled = settled,
                     !.response = response, !.failed = TRUE]

\* The fetch listener passes an API request to handleApiRequest, which
\* opens the cache and, for a GET, looks the request up in it and fetches
\* it; any other request goes to the fetch of the second try block.
SwFetchEvent(method, url) ==
    /\ sw.pc \in {"idle", "done"}
    /\ ~storePending
    /\ sw' = [pc |-> IF method = "GET" THEN "fetch1" ELSE "fetch2",
              method |-> method, url |-> url,
              cachedResponse |-> IF method = "GET"
                                 THEN CacheMatch(apiCache, url)
                                 ELSE NoApiResponse,
              settled |-> "pending", response |-> NoApiResponse,
              failed |-> FALSE, cacheAtStart |-> apiCache, notified |-> {}]
    /\ inbox' = [c \in WindowClients |-> <<>>]
    /\ UNCHANGED <<worker, apiCache, swClients, storePending, notWorkerVars>>

\* The fetch of a GET settles. An ok response is put in the cache and
\* returned; a response that is not ok leaves the if and the try block; on
\* a failure the cached response is returned if there is one, and else
\* part_001 answers 503 while part_000 leaves the catch block.
SwFirstFetch(outcome) ==
    /\ sw.pc = "fetch1"
    /\ IF outcome = NetworkFailure
       THEN /\ IF sw.cachedResponse # NoApiResponse
               THEN SettleFailed("resolved", sw.cachedResponse)
               ELSE IF worker = "part_001"
               THEN SettleFailed("resolved", UnavailableResponse)
               ELSE sw' = [sw EXCEPT !.pc = "fetch2"]
            /\ UNCHANGED apiCache
       ELSE IF Ok(NetworkResponse(outcome))
       THEN /\ apiCache' = (sw.url :> NetworkResponse(outcome)) @@ apiCache
            /\ Settle("resolved", NetworkResponse(outcome))
       ELSE /\ sw' = [sw EXCEPT !.pc = "fetch2"]
            /\ UNCHANGED apiCache
    /\ UNCHANGED <<worker, swClients, inbox, storePending, notWorkerVars>>

\* The fetch that follows settles: its response is returned as it is; on a
\* failure a POST, PUT or DELETE is passed to storeFailedRequest, and then
\* part_000 rethrows the error while part_001 answers 503.
SwSecondFetch(outcome) ==
    /\ sw.pc = "fetch2"
    /\ IF outcome = NetworkFailure
       THEN /\ storePending' = (sw.method \in StoredMethods)
            /\ IF worker = "part_001"
               THEN SettleFailed("resolved", UnavailableResponse)
               ELSE SettleFailed("rejected", NoApiResponse)
       ELSE /\ Settle("resolved", NetworkResponse(outcome))
            /\ UNCHANGED storePending
    /\ UNCHANGED <<worker, apiCache, swClients, inbox, notWorkerVars>>

\* clients.matchAll() resolves in storeFailedRequest: the message is posted
\* to each client there is.
SwPostMessages ==
    /\ storePending
    /\ inbox' = PostedToClients(swClients, inbox, FailedRequestMessage(sw))
    /\ sw' = [sw EXCEPT !.notified = swClients]
    /\ storePending' = FALSE
    /\ UNCHANGED <<worker, apiCache, swClients, notWorkerVars>>

\* A window of the app opens and is claimed by the worker, or closes.
SwClientOpens(c) ==
    /\ c \notin swClients
    /\ swClients' = swClients \cup {c}
    /\ UNCHANGED <<worker, apiCache, inbox, sw, storePending, notWorkerVars>>

SwClientCloses(c) ==
    /\ c \in swClients
    /\ swClients' = swClients \ {c}
    /\ UNCHANGED <<worker, apiCache, inbox, sw, storePending, notWorkerVars>>

WorkerNext ==
    \/ \E m \in RequestMethods, u \in Urls : SwFetchEvent(m, u)
    \/ \E o \in NetworkOutcomes : SwFirstFetch(o)
    \/ \E o \in NetworkOutcomes : SwSecondFetch(o)
    \/ SwPostMessages
    \/ \E c \in WindowClients : SwClientOpens(c)
    \/ \E c \in WindowClients : SwClientCloses(c)

\* handleApiRequest has settled for the request in hand.
SwSettled == sw.pc = "done"

\* C17: a GET that has a cached response is answered with that cached
\* response; a request of another method is never answered from the cache
\* and leaves the cache as it was.
C17_CacheFirstForGet ==
    SwSettled =>
        IF sw.method = "GET"
        THEN sw.cachedResponse # NoApiResponse =>
                /\ sw.settled = "resolved"
                /\ sw.response = sw.cachedResponse
        ELSE /\ sw.response.origin # "cache"
             /\ apiCache = sw.cacheAtStart

\* C18: handleApiRequest of part_001 never rejects; when the network has
\* failed it resolves with the cached response for a GET that has one and
\* else with 503 and the error 'Network unavailable'; and every entry of
\* the cache is a response with ok status.
C18_AlwaysAResponse ==
    worker = "part_001" =>
        /\ sw.settled # "rejected"
        /\ (SwSettled /\ sw.failed) =>
              /\ sw.settled = "resolved"
              /\ sw.response =
                    IF sw.method = "GET" /\ sw.cachedResponse # NoApiResponse
                    THEN sw.cachedResponse
                    ELSE UnavailableResponse
        /\ \A u \in DOMAIN apiCache : Ok(apiCache[u])

\* The fetch of a POST, PUT or DELETE in hand has failed, and
\* storeFailedRequest has run to its end.
FailedWriteStored ==
    /\ SwSettled
    /\ sw.failed
    /\ sw.method \in StoredMethods
    /\ ~storePending

\* C19: a POST, PUT or DELETE whose fetch failed has left exactly one
\* FAILED_REQUEST message, with its URL and method, with every client that
\* was open when the messages were posted, and none with any other; and a
\* failed GET leaves no message with anyone.
C19_FailedWritesArePosted ==
    /\ FailedWriteStored =>
          \A c \in WindowClients :
              inbox[c] = IF c \in sw.notified
                         THEN <<FailedRequestMessage(sw)>> ELSE <<>>
    /\ sw.method = "GET" =>
          /\ ~storePending
          /\ \A c \in WindowClients : inbox[c] = <<>>

\* C19 witness: a DELETE has failed with two clients open, and each holds
\* its one message.
C19_Witness ==
    /\ FailedWriteStored
    /\ sw.method = "DELETE"
    /\ sw.notified = WindowClients
    /\ \A c \in WindowClients : Len(inbox[c]) = 1

\* A GET has failed, with clients open, and has left no message.
C19_FailedGetWitness ==
    /\ SwSettled
    /\ sw.failed
    /\ sw.method = "GET"
    /\ swClients # {}

----------------------------------------------------------------------------
(* The database: the tables and their row level security policies          *)

Tables == {"commands", "notes", "note_links", "versions"}

SqlCommands == {"SELECT", "INSERT", "UPDATE", "DELETE"}

\* The commands a table has a policy for: note_links has none for UPDATE.
PolicyCommands(table) ==
    IF table = "note_links" THEN SqlCommands \ {"UPDATE"} ELSE SqlCommands

\* The tables whose rows are versioned by the trigger on update.
VersionedTables == {"commands", "notes"}

\* auth.uid() of a request: a user's id, or null for one that is not signed
\* in (NoUser).
Uids == Users \cup {NoUser}

RowIds == {"r1", "r2", "r3"}
Titles == {"a", "b"}

Row(id, table, owner, title) ==
    [id |-> id, table |-> table, user_id |-> owner, title |-> title]

\* auth.uid() = user_id: not true when auth.uid() is null.
OwnRow(uid, row) == uid # NoUser /\ uid = row.user_id

\* USING of the table's policy for the command, applied to a row there is;
\* without a policy for the command no row passes.
Using(uid, table, command, row) ==
    command \in PolicyCommands(table) /\ OwnRow(uid, row)

\* A check of new rows that UPDATE policies without WITH CHECK do not make.
WithCheckOnInsertOnly(uid, table, command, row) ==
    /\ command \in PolicyCommands(table)
    /\ command = "INSERT" => OwnRow(uid, row)

\* WITH CHECK of the table's policy for the command, applied to a row to be
\* written: the INSERT policies state it, and for the UPDATE policies, which
\* state USING only, the USING expression is the check.
WithCheck(uid, table, command, row) ==
    command \in PolicyCommands(table) /\ OwnRow(uid, row)

\* create_version_on_update: the versions row the trigger inserts for the
\* old row when the update changes its content. It runs as its definer.
VersionRows(old, new, id) ==
    IF old.table \in VersionedTables /\ old.title # new.title
    THEN {Row(id, "versions", old.user_id, old.title)}
    ELSE {}

NoStatement ==
    [uid |-> NoUser, command |-> "none", table |-> "none", returned |-> {},
     error |-> FALSE]

Statement(uid, command, table, returned, error) ==
    [uid |-> uid, command |-> command, table |-> table,
     returned |-> returned, error |-> error]

DbInit ==
    /\ rows = {}
    /\ dbLast = NoStatement

\* The state of the components other than the database.
notDbVars ==
    <<handlerVars, limiterVars, workerVars, offlineVars, linkVars,
      pageVars>>

\* The ids no row has, and gen_random_uuid(): one of them.
FreeIds == RowIds \ {r.id : r \in rows}
NewId == CHOOSE id \in FreeIds : TRUE

\* SELECT * FROM table, by uid: the rows that pass USING.
DbSelect(uid, table) ==
    /\ dbLast' = Statement(uid, "SELECT", table,
                           {r \in rows : r.table = table
                                         /\ Using(uid, table, "SELECT", r)},
                           FALSE)
    /\ UNCHANGED <<rows, notDbVars>>

\* INSERT INTO table, by uid, of a row with the given user_id: the row
\* must pass WITH CHECK, else the statement fails.
DbInsert(uid, table, owner, title) ==
    LET new == Row(NewId, table, owner, title)
    IN  /\ FreeIds # {}
        /\ IF WithCheck(uid, table, "INSERT", new)
           THEN /\ rows' = rows \cup {new}
                /\ dbLast' = Statement(uid, "INSERT", table, {}, FALSE)
           ELSE /\ rows' = rows
                /\ dbLast' = Statement(uid, "INSERT", table, {}, TRUE)
        /\ UNCHANGED notDbVars

\* UPDATE table SET user_id, title WHERE id, by uid: the row is updated if
\* it passes USING, the trigger then stores its old version, and the new
\* row must pass the check, else the statement fails and nothing is kept.
DbUpdate(uid, table, old, owner, title) ==
    LET new == Row(old.id, table, owner, title)
    IN  /\ old \in rows
        /\ old.table = table
        /\ FreeIds # {}
        /\ IF ~Using(uid, table, "UPDATE", old)
           THEN /\ rows' = rows
                /\ dbLast' = Statement(uid, "UPDATE", table, {}, FALSE)
           ELSE IF ~WithCheck(uid, table, "UPDATE", new)
           THEN /\ rows' = rows
                /\ dbLast' = Statement(uid, "UPDATE", table, {}, TRUE)
           ELSE /\ rows' = (rows \ {old}) \cup {new}
                               \cup VersionRows(old, new, NewId)
                /\ dbLast' = Statement(uid, "UPDATE", table, {}, FALSE)
        /\ UNCHANGED notDbVars

\* DELETE FROM table WHERE id, by uid: the row goes if it passes USING.
DbDelete(uid, table, old) ==
    /\ old \in rows
    /\ old.table = table
    /\ rows' = IF Using(uid, table, "DELETE", old) THEN rows \ {old} ELSE rows
    /\ dbLast' = Statement(uid, "DELETE", table, {}, FALSE)
    /\ UNCHANGED notDbVars

DbNext ==
    \/ \E uid \in Uids, t \in Tables : DbSelect(uid, t)
    \/ \E uid \in Uids, t \in Tables, owner \in Users, title \in Titles :
            DbInsert(uid, t, owner, title)
    \/ \E uid \in Uids, t \in Tables, old \in rows, owner \in Users,
          title \in Titles : DbUpdate(uid, t, old, owner, title)
    \/ \E uid \in Uids, t \in Tables, old \in rows : DbDelete(uid, t, old)

\* C13: a statement returns only rows whose user_id is the auth uid of who
\* ran it, changes or deletes only such rows, and writes only rows that
\* carry that uid; so the rows of the other users stay as they were.
C13_OwnRowsOnly ==
    [][/\ \A r \in dbLast'.returned : r.user_id = dbLast'.uid
       /\ \A r \in rows \ rows' : r.user_id = dbLast'.uid
       /\ \A r \in rows' \ rows : r.user_id = dbLast'.uid]_dbVars

\* C13 witness: a user has read a table that holds a row of theirs and a
\* row of another user, and got their own row only.
C13_Witness ==
    /\ dbLast.command = "SELECT"
    /\ dbLast.uid \in Users
    /\ dbLast.returned # {}
    /\ \E r \in rows :
          /\ r.table = dbLast.table
          /\ r.user_id # dbLast.uid
          /\ r \notin dbLast.returned

----------------------------------------------------------------------------
(* The page: useOfflineStorage and the components that record changes      *)

\* The components that call the hook; each call has a state of its own.
Components == {"Index", "CommandForm", "OfflineIndicator"}

\* The changes a component records while offline or writes while online:
\* the form creates and updates commands, the page deletes commands and
\* notes.
Changes(component) ==
    CASE component = "CommandForm" ->
            {[type |-> "create", table |-> "commands"],
             [type |-> "update", table |-> "commands"]}
      [] component = "Index" ->
            {[type |-> "delete", table |-> "commands"],
             [type |-> "delete", table |-> "notes"]}
      [] OTHER -> {}

\* The actions addPendingAction records before the model stops.
MaxActions == 3

\* A pending action; its id stands for crypto.randomUUID(), and 0 marks a
\* change that was written while online.
PendingAction(id, change) ==
    [id |-> id, type |-> change.type, table |-> change.table]

\* useState<PendingAction[]>([]): the value pendingActions has in the first
\* render, which is the render whose closures the effect with the empty
\* dependency list keeps.
InitialPendingActions == <<>>

\* getFromLocalStorage('devnotes-pending-actions') || []
loadPendingActions(stored) == stored

\* What syncPendingActions does with the pendingActions it sees: nothing
\* when the list is empty, else it arms the timer that clears the queue.
syncPendingActions(seen) == Len(seen) # 0

\* What the indicator shows for an instance of the hook.
Indicator(online, pending) ==
    IF online /\ Len(pending) = 0 THEN "none"
    ELSE IF ~online THEN "Offline"
    ELSE "Syncing"

OfflineInit ==
    /\ navigatorOnLine = TRUE
    /\ localStorage = <<>>
    /\ isOnline = [c \in Components |-> TRUE]
    /\ pendingActions = [c \in Components |-> InitialPendingActions]
    /\ syncing = [c \in Components |-> FALSE]
    /\ backend = {}
    /\ recorded = {}
    /\ lastEvent = "load"

\* The state of the components other than the page.
notOfflineVars ==
    <<handlerVars, limiterVars, workerVars, dbVars, linkVars,
      pageVars>>

\* The page loads: each component mounts with navigator.onLine and an
\* empty list, and its effect loads the stored list.
PageLoad ==
    /\ isOnline' = [c \in Components |-> navigatorOnLine]
    /\ pendingActions' =
          [c \in Components |-> loadPendingActions(localStorage)]
    /\ syncing' = [c \in Components |-> FALSE]
    /\ lastEvent' = "load"
    /\ UNCHANGED <<navigatorOnLine, localStorage, backend, recorded,
                   notOfflineVars>>

\* What the window's offline event does to the hooks: handleOffline of
\* each instance.
OfflineEvent ==
    /\ navigatorOnLine
    /\ navigatorOnLine' = FALSE
    /\ isOnline' = [c \in Components |-> FALSE]
    /\ lastEvent' = "offline"
    /\ UNCHANGED <<localStorage, pendingActions, syncing, backend, recorded>>

\* The window's offline event.
WindowOffline == OfflineEvent /\ UNCHANGED notOfflineVars

\* What the window's online event does to the hooks: handleOnline of each
\* instance, which calls the syncPendingActions of the first render. The
\* timer's callback has no step of its own: no other caller of
\* syncPendingActions exists, so the timer is never armed.
OnlineEvent ==
    /\ ~navigatorOnLine
    /\ navigatorOnLine' = TRUE
    /\ isOnline' = [c \in Components |-> TRUE]
    /\ syncing' = [c \in Components |->
                     syncing[c] \/ syncPendingActions(InitialPendingActions)]
    /\ lastEvent' = "online"
    /\ UNCHANGED <<localStorage, pendingActions, backend, recorded>>

\* The window's online event.
WindowOnline == OnlineEvent /\ UNCHANGED notOfflineVars

\* What addPendingAction does to the hooks while the instance is offline:
\* it appends to the instance's list and saves that list.
RecordPendingAction(c, change) ==
    LET newAction == PendingAction(Cardinality(recorded) + 1, change)
        updated   == Append(pendingActions[c], newAction)
    IN  /\ ~isOnline[c]
        /\ Cardinality(recorded) < MaxActions
        /\ pendingActions' = [pendingActions EXCEPT ![c] = updated]
        /\ localStorage' = updated
        /\ recorded' = recorded \cup {newAction}
        /\ UNCHANGED <<navigatorOnLine, isOnline, syncing, backend,
                       lastEvent>>

\* handleSubmit or handleDelete while the instance is offline.
AddPendingAction(c, change) ==
    RecordPendingAction(c, change) /\ UNCHANGED notOfflineVars

\* handleSubmit or handleDelete while the instance is online: the change
\* is written to the backend table.
WriteOnline(c, change) ==
    /\ isOnline[c]
    /\ backend' = backend \cup {PendingAction(0, change)}
    /\ UNCHANGED <<navigatorOnLine, localStorage, isOnline, pendingActions,
                   syncing, recorded, lastEvent, notOfflineVars>>

OfflineNext ==
    \/ PageLoad
    \/ WindowOffline
    \/ WindowOnline
    \/ \E c \in Components : \E change \in Changes(c) :
          AddPendingAction(c, change)
    \/ \E c \in Components : \E change \in Changes(c) : WriteOnline(c, change)

\* The action is in the stored queue.
Queued(a) == \E n \in 1..Len(localStorage) : localStorage[n] = a

\* C14: a change recorded through addPendingAction stays in the pending
\* queue until it has been applied to the backend table, and once the
\* online event has been handled the recorded changes that are not applied
\* yet are being synced.
C14_PendingChangesReachBackend ==
    /\ \A a \in recorded : a \in backend \/ Queued(a)
    /\ (lastEvent = "online" /\ recorded \ backend # {}) =>
          \E c \in Components : syncing[c]

\* C20: once the online event has been handled by an instance of the hook
\* that holds pending actions, syncPendingActions is running on them: the
\* timer that empties the queue, in the state and in localStorage, is armed.
C20_OnlineEmptiesQueue ==
    \A c \in Components :
        (lastEvent = "online" /\ Len(pendingActions[c]) # 0) =>
            /\ Indicator(isOnline[c], pendingActions[c]) = "Syncing"
            /\ syncing[c]

\* C21: no pending action is lost before a sync: every action passed to
\* addPendingAction, by whichever component, is in the list stored under
\* 'devnotes-pending-actions' (clearPendingActions never runs).
C21_NoPendingActionLost ==
    \A a \in recorded : Queued(a)

----------------------------------------------------------------------------
(* The note form: saveLinks                                                *)

\* The notes whose links are saved and the items a note can link to.
NoteIds == {"n1", "n2"}

LinkTargets ==
    {[id |-> "n1", type |-> "note"], [id |-> "n2", type |-> "note"],
     [id |-> "c1", type |-> "command"]}

\* The length of selectedLinks.
MaxLinks == 2

\* The values of selectedLinks for a note: handleSelectItem appends an item
\* of the list of available items, which leaves out the note itself and is
\* not fetched again after a selection, so an item can be selected twice.
SelectedLinks(noteId) ==
    UNION {[1..n -> {t \in LinkTargets : t.id # noteId}] : n \in 0..MaxLinks}

\* The user whose form it is.
LinkUser == "u1"

\* The outcomes of a statement sent to the backend.
StatementOutcomes == {"ok", "error"}

\* A row of note_links (id and created_at are left out).
LinkRow(uid, noteId, link) ==
    [user_id |-> uid, from_id |-> noteId, from_type |-> "note",
     to_id |-> link.id, to_type |-> link.type]

\* selectedLinks.map(link => ({...}))
linksToInsert(uid, noteId, selected) ==
    [n \in 1..Len(selected) |-> LinkRow(uid, noteId, selected[n])]

\* UNIQUE(from_id, to_id, from_type, to_type)
UniqueKey(row) == <<row.from_id, row.to_id, row.from_type, row.to_type>>

\* The rows delete().eq('from_id', noteId).eq('from_type', 'note')
\* .eq('user_id', user.id) leaves in the table.
DeleteLinks(table, uid, noteId) ==
    {r \in table :
        ~(r.from_id = noteId /\ r.from_type = "note" /\ r.user_id = uid)}

\* Whether the insert of the rows breaks the unique constraint: a row of
\* the statement repeats the key of a stored row or of another row of it.
ViolatesUnique(table, inserted) ==
    \/ \E n \in 1..Len(inserted) : \E r \in table :
          UniqueKey(r) = UniqueKey(inserted[n])
    \/ \E m, n \in 1..Len(inserted) :
          m # n /\ UniqueKey(inserted[m]) = UniqueKey(inserted[n])

\* The rows of the user that leave the note.
LinksOf(table, uid, noteId) ==
    {r \in table :
        r.user_id = uid /\ r.from_id = noteId /\ r.from_type = "note"}

LinkIdle ==
    [pc |-> "idle", noteId |-> Undefined, selectedLinks |-> <<>>,
     error |-> FALSE, before |-> {}]

LinkInit ==
    /\ noteLinks = {}
    /\ linkForm = LinkIdle

\* The state of the components other than the note form.
notLinkVars ==
    <<handlerVars, limiterVars, workerVars, dbVars, offlineVars,
      pageVars>>

\* handleSubmit calls saveLinks(noteId) with the form's selectedLinks.
SaveLinksCall(noteId, selected) ==
    /\ linkForm.pc \in {"idle", "done"}
    /\ linkForm' = [pc |-> "delete", noteId |-> noteId,
                    selectedLinks |-> selected, error |-> FALSE,
                    before |-> noteLinks]
    /\ UNCHANGED <<noteLinks, notLinkVars>>

\* The delete of the note's links is answered; its result is not read.
SaveLinksDelete(outcome) ==
    /\ linkForm.pc = "delete"
    /\ noteLinks' = IF outcome = "ok"
                    THEN DeleteLinks(noteLinks, LinkUser, linkForm.noteId)
                    ELSE noteLinks
    /\ linkForm' = [linkForm EXCEPT
          !.pc = IF Len(linkForm.selectedLinks) > 0 THEN "insert" ELSE "done"]
    /\ UNCHANGED notLinkVars

\* The insert of the selected links is answered; an error is thrown.
SaveLinksInsert(outcome) ==
    LET inserted ==
            linksToInsert(LinkUser, linkForm.noteId, linkForm.selectedLinks)
        failed == outcome = "error" \/ ViolatesUnique(noteLinks, inserted)
    IN  /\ linkForm.pc = "insert"
        /\ noteLinks' = IF failed THEN noteLinks
                        ELSE noteLinks \cup
                                {inserted[n] : n \in 1..Len(inserted)}
        /\ linkForm' = [linkForm EXCEPT !.pc = "done", !.error = failed]
        /\ UNCHANGED notLinkVars

LinkNext ==
    \/ \E noteId \in NoteIds : \E selected \in SelectedLinks(noteId) :
          SaveLinksCall(noteId, selected)
    \/ \E outcome \in StatementOutcomes : SaveLinksDelete(outcome)
    \/ \E outcome \in StatementOutcomes : SaveLinksInsert(outcome)

\* C24: after saveLinks(noteId) completes without error, the user's links
\* that leave the note are exactly one row per entry of selectedLinks, and
\* the links of the other notes are as they were before the call.
C24_SaveLinksReplaces ==
    (linkForm.pc = "done" /\ ~linkForm.error) =>
        LET inserted == linksToInsert(LinkUser, linkForm.noteId,
                                      linkForm.selectedLinks)
        IN  /\ LinksOf(noteLinks, LinkUser, linkForm.noteId) =
                  {inserted[n] : n \in 1..Len(inserted)}
            /\ Cardinality(LinksOf(noteLinks, LinkUser, linkForm.noteId)) =
                  Len(inserted)
            /\ noteLinks \ LinksOf(noteLinks, LinkUser, linkForm.noteId) =
                  linkForm.before \
                      LinksOf(linkForm.before, LinkUser, linkForm.noteId)

----------------------------------------------------------------------------
(* The page Index: fetchData, handleDelete and the command form             *)

\* The tables the page lists.
PageTables == {"commands", "notes"}

\* The ids of the rows of each table.
PageItems == [commands |-> {"c1", "c2"}, notes |-> {"n1"}]

\* The lists of the two tables, as sets of ids (the order by created_at is
\* left out).
Lists(cs, ns) == [commands |-> cs, notes |-> ns]

\* useState<Command[]>([]), useState<Note[]>([])
EmptyLists == Lists({}, {})

\* getCachedData() when nothing is stored under the key.
NoCache == [present |-> FALSE, commands |-> {}, notes |-> {}]

\* What cacheData stores (lastSync is left out).
Cached(lists) ==
    [present |-> TRUE, commands |-> lists.commands, notes |-> lists.notes]

\* The requests the page has in flight at a time.
MaxInFlight == 1

Slots == 1..MaxInFlight

NoRequest == [kind |-> "none"]

\* A request to the backend: what it asks, whether the backend has served
\* it, the item it is about, its outcome, the rows a select returned, and
\* whether it is the select of the fetchData that reverts a delete.
Request(kind, id, table, revert) ==
    [kind |-> kind, phase |-> "sent", id |-> id, table |-> table,
     outcome |-> "ok", rows |-> EmptyLists, revert |-> revert]

SelectRequest(revert) == Request("select", Undefined, Undefined, revert)

\* The slots that hold no request.
FreeSlots == {n \in Slots : requests[n] = NoRequest}

FreeSlot == CHOOSE n \in FreeSlots : \A m \in FreeSlots : n <= m

\* The outcomes of a request: nothing reaches the backend while the
\* browser is offline.
RequestOutcomes == IF navigatorOnLine THEN {"ok", "error"} ELSE {"error"}

\* What the backend does with the request.
ServedRows(lists, request) ==
    CASE request.kind = "delete" ->
            [lists EXCEPT ![request.table] = @ \ {request.id}]
      [] request.kind = "insert" ->
            [lists EXCEPT ![request.table] = @ \cup {request.id}]
      [] OTHER -> lists

\* fetchData takes the cache branch: the page is offline in the render
\* whose fetchData runs, and there is cached data.
LoadsFromCache(seenOnline, cache) == ~seenOnline /\ cache.present

\* What the catch branch of fetchData shows.
CachedOrKept(lists, cache) ==
    IF cache.present THEN Lists(cache.commands, cache.notes) ELSE lists

\* What fetchData shows before any answer arrives.
FetchDisplayed(seenOnline) ==
    IF LoadsFromCache(seenOnline, offlineData)
    THEN Lists(offlineData.commands, offlineData.notes)
    ELSE displayed

\* The requests in flight once fetchData has run, its select in the slot.
FetchRequests(seenOnline, inFlight, slot, revert) ==
    IF LoadsFromCache(seenOnline, offlineData)
    THEN inFlight
    ELSE [inFlight EXCEPT ![slot] = SelectRequest(revert)]

NoStep == [op |-> "none", id |-> Undefined, table |-> Undefined]

Step(op, id, table) == [op |-> op, id |-> id, table |-> table]

NoChanges == [deleted |-> EmptyLists, created |-> {}]

\* The page has mounted with a user: its effect has called fetchData.
PageInit ==
    /\ backendRows = Lists({"c1"}, {"n1"})
    /\ displayed = EmptyLists
    /\ offlineData = NoCache
    /\ requests = [n \in Slots |->
                     IF n = 1 THEN SelectRequest(FALSE) ELSE NoRequest]
    /\ minted = {"c1"}
    /\ offlineChanges = NoChanges
    /\ lastStep = NoStep

\* The state of the components other than the page and its hooks.
notPageVars == <<handlerVars, limiterVars, workerVars, dbVars, linkVars>>

\* Index.handleDelete: the item leaves the list at once; online the delete
\* is sent, offline it is recorded as a pending action.
HandleDelete(id, table) ==
    /\ id \in displayed[table]
    /\ displayed' = [displayed EXCEPT ![table] = @ \ {id}]
    /\ lastStep' = Step("removed", id, table)
    /\ IF isOnline["Index"]
       THEN /\ FreeSlots # {}
            /\ requests' = [requests EXCEPT
                  ![FreeSlot] = Request("delete", id, table, FALSE)]
            /\ UNCHANGED <<offlineVars, offlineChanges>>
       ELSE /\ RecordPendingAction("Index",
                                   [type |-> "delete", table |-> table])
            /\ offlineChanges' = [offlineChanges EXCEPT
                  !.deleted[table] = @ \cup {id}]
            /\ UNCHANGED requests
    /\ UNCHANGED <<backendRows, offlineData, minted, notPageVars>>

\* CommandForm.handleSubmit: online the insert or update is sent; offline
\* the change is recorded and onSuccess calls the page's fetchData.
HandleSubmit(change, id) ==
    /\ IF change.type = "create"
       THEN /\ id \in PageItems.commands \ minted
            /\ minted' = minted \cup {id}
       ELSE /\ id \in displayed.commands
            /\ UNCHANGED minted
    /\ IF isOnline["CommandForm"]
       THEN /\ FreeSlots # {}
            /\ requests' = [requests EXCEPT ![FreeSlot] =
                  Request(IF change.type = "create" THEN "insert"
                          ELSE "update", id, "commands", FALSE)]
            /\ lastStep' = Step("submitted", Undefined, Undefined)
            /\ UNCHANGED <<displayed, offlineVars, offlineChanges>>
       ELSE /\ RecordPendingAction("CommandForm", change)
            /\ offlineChanges' = [offlineChanges EXCEPT
                  !.created = IF change.type = "create"
                              THEN @ \cup {id} ELSE @]
            /\ LoadsFromCache(isOnline["Index"], offlineData)
                  \/ FreeSlots # {}
            /\ displayed' = FetchDisplayed(isOnline["Index"])
            /\ requests' = FetchRequests(isOnline["Index"], requests,
                                         FreeSlot, FALSE)
            /\ lastStep' = Step("recorded", Undefined, Undefined)
    /\ UNCHANGED <<backendRows, offlineData, notPageVars>>

\* The backend serves a request, or the request fails.
Serve(n, outcome) ==
    LET r == requests[n]
    IN  /\ r # NoRequest
        /\ r.phase = "sent"
        /\ outcome \in RequestOutcomes
        /\ backendRows' = IF outcome = "ok"
                          THEN ServedRows(backendRows, r) ELSE backendRows
        /\ requests' = [requests EXCEPT ![n] =
              [r EXCEPT !.phase = "served", !.outcome = outcome,
                        !.rows = IF r.kind = "select" /\ outcome = "ok"
                                 THEN backendRows ELSE EmptyLists]]
        /\ lastStep' = Step("served", Undefined, Undefined)
        /\ UNCHANGED <<displayed, offlineData, minted, offlineChanges,
                       offlineVars, notPageVars>>

\* The answer to a delete reaches handleDelete: an error calls fetchData,
\* of the render in which the page was online.
DeliverDelete(n) ==
    LET r == requests[n]
    IN  /\ r # NoRequest
        /\ r.phase = "served"
        /\ r.kind = "delete"
        /\ requests' = [requests EXCEPT ![n] =
              IF r.outcome = "ok" THEN NoRequest ELSE SelectRequest(TRUE)]
        /\ lastStep' = IF r.outcome = "ok"
                       THEN Step("deleted", r.id, r.table)
                       ELSE Step("failed", Undefined, Undefined)
        /\ UNCHANGED <<backendRows, displayed, offlineData, minted,
                       offlineChanges, offlineVars, notPageVars>>

\* The answer to an insert or update reaches handleSubmit: without an
\* error onSuccess calls the page's fetchData.
DeliverSubmit(n) ==
    LET r == requests[n]
        freed == [requests EXCEPT ![n] = NoRequest]
    IN  /\ r # NoRequest
        /\ r.phase = "served"
        /\ r.kind \in {"insert", "update"}
        /\ IF r.outcome = "ok"
           THEN /\ displayed' = FetchDisplayed(isOnline["Index"])
                /\ requests' =
                      FetchRequests(isOnline["Index"], freed, n, FALSE)
           ELSE /\ requests' = freed
                /\ UNCHANGED displayed
        /\ lastStep' = Step("answered", Undefined, Undefined)
        /\ UNCHANGED <<backendRows, offlineData, minted, offlineChanges,
                       offlineVars, notPageVars>>

\* The answer to the selects reaches fetchData: the rows are shown and
\* cached, or, after an error, the cached lists are shown.
DeliverSelect(n) ==
    LET r == requests[n]
    IN  /\ r # NoRequest
        /\ r.phase = "served"
        /\ r.kind = "select"
        /\ IF r.outcome = "ok"
           THEN /\ displayed' = r.rows
                /\ offlineData' = Cached(r.rows)
           ELSE /\ displayed' = CachedOrKept(displayed, offlineData)
                /\ UNCHANGED offlineData
        /\ requests' = [requests EXCEPT ![n] = NoRequest]
        /\ lastStep' = Step(IF r.revert THEN "reverted" ELSE "fetched",
                            Undefined, Undefined)
        /\ UNCHANGED <<backendRows, minted, offlineChanges, offlineVars,
                       notPageVars>>

\* The window's offline event, with the page open.
PageOffline ==
    /\ OfflineEvent
    /\ offlineChanges' = NoChanges
    /\ lastStep' = Step("offline", Undefined, Undefined)
    /\ UNCHANGED <<backendRows, displayed, offlineData, requests, minted,
                   notPageVars>>

\* The window's online event, with the page open.
PageOnline ==
    /\ OnlineEvent
    /\ offlineChanges' = NoChanges
    /\ lastStep' = Step("online", Undefined, Undefined)
    /\ UNCHANGED <<backendRows, displayed, offlineData, requests, minted,
                   notPageVars>>

PageNext ==
    \/ \E table \in PageTables : \E id \in PageItems[table] :
          HandleDelete(id, table)
    \/ \E change \in Changes("CommandForm") : \E id \in PageItems.commands :
          HandleSubmit(change, id)
    \/ \E n \in Slots : \E outcome \in {"ok", "error"} : Serve(n, outcome)
    \/ \E n \in Slots : DeliverDelete(n)
    \/ \E n \in Slots : DeliverSubmit(n)
    \/ \E n \in Slots : DeliverSelect(n)
    \/ PageOffline
    \/ PageOnline

\* C22: handleDelete removes the item from the displayed list at once; when
\* the backend's delete fails, the displayed lists equal the stored rows
\* once the fetchData it calls has completed; when the delete succeeds,
\* the item is not displayed.
C22_OptimisticDeleteReverts ==
    /\ lastStep.op = "removed" =>
          lastStep.id \notin displayed[lastStep.table]
    /\ lastStep.op = "reverted" => displayed = backendRows
    /\ lastStep.op = "deleted" =>
          lastStep.id \notin displayed[lastStep.table]

\* C23: while the page is offline, no item deleted since the window went
\* offline is displayed, and once no fetchData is in flight every command
\* created since then is displayed.
C23_OfflineChangesStayVisible ==
    ~isOnline["Index"] =>
        /\ \A table \in PageTables :
              displayed[table] \cap offlineChanges.deleted[table] = {}
        /\ FreeSlots = Slots =>
              offlineChanges.created \subseteq displayed.commands

----------------------------------------------------------------------------
(* Specifications                                                          *)

\* The state when the functions, the worker and the page have loaded.
InitAll ==
    /\ Init /\ LimiterInit /\ WorkerInit /\ DbInit /\ OfflineInit
    /\ LinkInit /\ PageInit

\* That state, with the API key set and the later worker script installed.
InitKeyed == InitAll /\ openAIApiKey # Undefined /\ worker = "part_001"

Spec == InitKeyed /\ [][Next]_vars

RateSpec == InitKeyed /\ [][RateNext]_vars

MemoSpec == InitKeyed /\ [][MemoNext]_vars

\* The limiter runs with and without an API key.
InitAnyKey == InitAll /\ worker = "part_001"

LimiterSpec == InitAnyKey /\ [][LimiterNext]_vars

\* The worker runs in either of its two variants.
InitAnyVariant == InitAll /\ openAIApiKey # Undefined

WorkerSpec == InitAnyVariant /\ [][WorkerNext]_vars

DbSpec == InitKeyed /\ [][DbNext]_vars

OfflineSpec == InitKeyed /\ [][OfflineNext]_vars

LinkSpec == InitKeyed /\ [][LinkNext]_vars

PageSpec == InitKeyed /\ [][PageNext]_vars

====
